---- MODULE Spec2Model ----
(***************************************************************************)
(* Model of the smart-date-input engine (src/src/lib/activity-date-utils.ts)*)
(* Texts are TLA+ strings handled character by character; a Date is a local *)
(* wall-clock instant [day, tod]: day = days since 1970-01-01, tod = the    *)
(* millisecond of that day (no time zone offset, no daylight saving).       *)
(* Confidences are kept in units of 1/10000 so that the one sum of the code *)
(* that IEEE doubles round below its decimal value (0.7 + 0.2) is kept.     *)
(* A value the code binds once and reads many times (const x = ...) is the  *)
(* argument of the operator that models the code reading it.                *)
(***************************************************************************)
EXTENDS Integers, Sequences, FiniteSets, TLC

VARIABLES now, legacy, input, showTime, pc, result, formatted, reparsed, suggestions, chosen,
          ticks,                \* how often the system clock was seen to advance
          dueDate, status,      \* getDueDateStatus: its argument and its answer
          inputValue, showSuggestions, selectedSuggestionIndex, currentParseResult,
          focused, blurTimers,  \* whether the input has the focus; pending handleBlur timers
          valueProp             \* SmartDateInput: its state, and its value property
                                \* (what onChange last committed)

\* the state of the due-date classifier and of the widget
due == <<dueDate, status>>
widget == <<inputValue, showSuggestions, selectedSuggestionIndex, currentParseResult, focused,
            blurTimers, valueProp>>

vars == <<now, legacy, input, showTime, pc, result, formatted, reparsed, suggestions, chosen,
          ticks, due, widget>>

-----------------------------------------------------------------------------
(* JavaScript string primitives                                            *)

Undefined == "undefined"
\* NaN is a number no parseInt of the engine returns
NaN == -(2^30)
IsNaN(x) == x = NaN
Null == [isNull |-> TRUE]

DigitChars == {"0", "1", "2", "3", "4", "5", "6", "7", "8", "9"}
UpperChars == "ABCDEFGHIJKLMNOPQRSTUVWXYZ"
LowerChars == "abcdefghijklmnopqrstuvwxyz"

\* the characters i..j of s that exist (String.prototype.substring, 1-based, inclusive)
Slice(s, i, j) ==
    LET a == IF i < 1 THEN 1 ELSE i
        b == IF j > Len(s) THEN Len(s) ELSE j
    IN IF a > b THEN "" ELSE SubSeq(s, a, b)

CharAt(s, i) == Slice(s, i, i)

UpperSet == {CharAt(UpperChars, i) : i \in 1..Len(UpperChars)}
LowerSet == {CharAt(LowerChars, i) : i \in 1..Len(LowerChars)}
\* \w of a JavaScript regular expression
WordChars == DigitChars \cup UpperSet \cup LowerSet \cup {"_"}
\* \s of a JavaScript regular expression, for the characters the texts use
SpaceChars == {" ", "\t", "\n"}

IsDigit(c) == c \in DigitChars
IsWordChar(c) == c \in WordChars
IsSpace(c) == c \in SpaceChars

\* \b at position i: between the characters i-1 and i
WordBoundary(s, i) == IsWordChar(CharAt(s, i - 1)) # IsWordChar(CharAt(s, i))

LowerMap ==
    [c \in UpperSet |->
        CharAt(LowerChars, CHOOSE k \in 1..Len(UpperChars) : CharAt(UpperChars, k) = c)]
LowerOf(c) == IF c \in UpperSet THEN LowerMap[c] ELSE c

RECURSIVE toLowerCase(_)
toLowerCase(s) ==
    IF \A i \in 1..Len(s) : CharAt(s, i) \notin UpperSet THEN s
    ELSE LowerOf(CharAt(s, 1)) \o toLowerCase(Tail(s))

RECURSIVE trimStart(_)
trimStart(s) == IF s # "" /\ IsSpace(CharAt(s, 1)) THEN trimStart(Tail(s)) ELSE s

RECURSIVE trimEnd(_)
trimEnd(s) ==
    IF s # "" /\ IsSpace(CharAt(s, Len(s))) THEN trimEnd(Slice(s, 1, Len(s) - 1)) ELSE s

trim(s) == trimEnd(trimStart(s))

startsWithAt(s, i, p) == Slice(s, i, i + Len(p) - 1) = p
startsWith(s, p) == startsWithAt(s, 1, p)

\* Array.prototype.findIndex over the outcomes of the test, 0-based; -1 when none is true
findIndex(flags) ==
    LET hits == {k \in 1..Len(flags) : flags[k]}
    IN IF hits = {} THEN -1 ELSE (CHOOSE k \in hits : \A j \in hits : k <= j) - 1

\* String.prototype.indexOf, 1-based; 0 when `sub` does not occur
indexOf(s, sub) ==
    IF sub = "" THEN 1 ELSE findIndex([i \in 1..Len(s) |-> startsWithAt(s, i, sub)]) + 1

includes(s, sub) == sub = "" \/ indexOf(s, sub) # 0

\* the text without the Len(sub) characters at position i; the text itself when i = 0
RemoveAt(s, sub, i) ==
    IF sub = "" \/ i = 0 THEN s ELSE Slice(s, 1, i - 1) \o Slice(s, i + Len(sub), Len(s))

\* s.replace(sub, ""): removes the first occurrence of the string `sub`
removeFirst(s, sub) == RemoveAt(s, sub, indexOf(s, sub))

DigitValue(c) == CHOOSE v \in 0..9 : Slice("0123456789", v + 1, v + 1) = c

RECURSIVE DigitsValue(_, _)
DigitsValue(s, acc) ==
    IF s # "" /\ IsDigit(CharAt(s, 1))
    THEN DigitsValue(Tail(s), acc * 10 + DigitValue(CharAt(s, 1)))
    ELSE acc

\* parseInt(s, 10) on the texts the engine hands it (no sign, no leading space)
parseInt(s) == IF IsDigit(CharAt(s, 1)) THEN DigitsValue(s, 0) ELSE NaN

RECURSIVE NatToString(_)
NatToString(n) ==
    IF n < 10 THEN Slice("0123456789", n + 1, n + 1)
    ELSE NatToString(n \div 10) \o Slice("0123456789", (n % 10) + 1, (n % 10) + 1)

RECURSIVE PadStart(_, _)
PadStart(s, width) == IF Len(s) >= width THEN s ELSE PadStart("0" \o s, width)

\* the length of the run of characters satisfying \s (resp. \d) from position i
RECURSIVE SpaceRun(_, _)
SpaceRun(s, i) == IF IsSpace(CharAt(s, i)) THEN 1 + SpaceRun(s, i + 1) ELSE 0

RECURSIVE DigitRun(_, _)
DigitRun(s, i) == IF IsDigit(CharAt(s, i)) THEN 1 + DigitRun(s, i + 1) ELSE 0

AllDigitsIn(s, i, j) == \A k \in i..j : IsDigit(CharAt(s, k))

\* the result of String.prototype.match: no match, or the matched text and its groups
NoMatch == [ok |-> FALSE]

Matched(s, i, e, g1, g2, g3) ==
    [ok |-> TRUE, index |-> i, text |-> Slice(s, i, e - 1), g1 |-> g1, g2 |-> g2, g3 |-> g3]

\* the first attempt, in order, that succeeds: the attempts of a pattern are ordered by
\* position (leftmost first) and, at one position, by the backtracking order
FirstOk(tries) ==
    LET hits == {k \in 1..Len(tries) : tries[k].ok}
    IN IF hits = {} THEN NoMatch ELSE tries[CHOOSE k \in hits : \A j \in hits : k <= j]

-----------------------------------------------------------------------------
(* The three time patterns of parseSmartDateString. The text they see is    *)
(* lower case already, so the i flag changes nothing.                       *)

\* the end of /\s*(am|pm)\b/ when the spaces end at `ap`
AmPmEnd(s, ap) == IF Slice(s, ap, ap + 1) \in {"am", "pm"} /\ WordBoundary(s, ap + 2)
                  THEN ap + 2 ELSE 0

\* /\b(\d{1,2})(?::(\d{2}))?\s*(am|pm)\b/i with the hour digits ending before afterH and
\* the am/pm at `ap`
TimeAmPmGroups(s, i, afterH, withMinutes, ap) ==
    IF /\ AllDigitsIn(s, i, afterH - 1)
       /\ withMinutes => CharAt(s, afterH) = ":" /\ AllDigitsIn(s, afterH + 1, afterH + 2)
       /\ AmPmEnd(s, ap) # 0
    THEN Matched(s, i, ap + 2, Slice(s, i, afterH - 1),
                 IF withMinutes THEN Slice(s, afterH + 1, afterH + 2) ELSE Undefined,
                 Slice(s, ap, ap + 1))
    ELSE NoMatch

\* the attempt with k hour digits, with or without :MM
TimeAmPmTry(s, i, k, withMinutes) ==
    TimeAmPmGroups(s, i, i + k, withMinutes,
                   i + k + (IF withMinutes THEN 3 ELSE 0)
                   + SpaceRun(s, i + k + (IF withMinutes THEN 3 ELSE 0)))

\* greedy quantifiers: two digits before one, the optional group before its absence
TimeAmPmShapes ==
    <<[digits |-> 2, minutes |-> TRUE], [digits |-> 2, minutes |-> FALSE],
      [digits |-> 1, minutes |-> TRUE], [digits |-> 1, minutes |-> FALSE]>>

DigitCounts == <<2, 1>>

StartsNumber(s, i) == WordBoundary(s, i) /\ IsDigit(CharAt(s, i))

TimeAmPmAt(s, i) ==
    IF ~StartsNumber(s, i) THEN NoMatch
    ELSE FirstOk([k \in 1..Len(TimeAmPmShapes) |->
                     TimeAmPmTry(s, i, TimeAmPmShapes[k].digits, TimeAmPmShapes[k].minutes)])

\* /\b(\d{1,2}):(\d{2})\b/ with k hour digits
Time24Try(s, i, k) ==
    IF /\ AllDigitsIn(s, i, i + k - 1)
       /\ CharAt(s, i + k) = ":"
       /\ AllDigitsIn(s, i + k + 1, i + k + 2)
       /\ WordBoundary(s, i + k + 3)
    THEN Matched(s, i, i + k + 3, Slice(s, i, i + k - 1), Slice(s, i + k + 1, i + k + 2),
                 Undefined)
    ELSE NoMatch

Time24At(s, i) ==
    IF ~StartsNumber(s, i) THEN NoMatch
    ELSE FirstOk([k \in 1..Len(DigitCounts) |-> Time24Try(s, i, DigitCounts[k])])

\* /\b(\d{1,2})\s*(am|pm)\b/i with the hour digits ending before afterH: am/pm is
\* group 2 here
TimeHourGroups(s, i, afterH, ap) ==
    IF AllDigitsIn(s, i, afterH - 1) /\ AmPmEnd(s, ap) # 0
    THEN Matched(s, i, ap + 2, Slice(s, i, afterH - 1), Slice(s, ap, ap + 1), Undefined)
    ELSE NoMatch

TimeHourTry(s, i, k) == TimeHourGroups(s, i, i + k, i + k + SpaceRun(s, i + k))

TimeHourAt(s, i) ==
    IF ~StartsNumber(s, i) THEN NoMatch
    ELSE FirstOk([k \in 1..Len(DigitCounts) |-> TimeHourTry(s, i, DigitCounts[k])])

timePatterns(s) ==
    <<FirstOk([i \in 1..Len(s) |-> TimeAmPmAt(s, i)]),
      FirstOk([i \in 1..Len(s) |-> Time24At(s, i)]),
      FirstOk([i \in 1..Len(s) |-> TimeHourAt(s, i)])>>

-----------------------------------------------------------------------------
(* Dates: the JavaScript Date and date-fns operations the engine uses       *)

MsPerMinute == 60 * 1000
MsPerHour == 60 * MsPerMinute
MsPerDay == 24 * MsPerHour

\* days since 1970-01-01 of day `doy` (0-based, counted from March 1) of the year yy
\* that starts in March
DaysFromMarchYear(yy, doy) ==
    (yy \div 400) * 146097 + (yy % 400) * 365 + (yy % 400) \div 4 - (yy % 400) \div 100
    + doy - 719468

\* days since 1970-01-01 of the proleptic Gregorian date y-m-d (m in 1..12)
DaysFromCivil(y, m, d) ==
    DaysFromMarchYear(IF m <= 2 THEN y - 1 ELSE y,
                      (153 * (IF m > 2 THEN m - 3 ELSE m + 9) + 2) \div 5 + d - 1)

\* [y, m, d] from the March-based year, day of year and month index (0 = March)
CivilOfMonthIndex(yy, doy, mp) ==
    [y |-> IF mp < 10 THEN yy ELSE yy + 1,
     m |-> IF mp < 10 THEN mp + 3 ELSE mp - 9,
     d |-> doy - (153 * mp + 2) \div 5 + 1]

CivilOfDayOfYear(yy, doy) == CivilOfMonthIndex(yy, doy, (5 * doy + 2) \div 153)

CivilOfYearOfEra(era, doe, yoe) ==
    CivilOfDayOfYear(yoe + era * 400, doe - (365 * yoe + yoe \div 4 - yoe \div 100))

CivilOfDayOfEra(era, doe) ==
    CivilOfYearOfEra(era, doe,
                     (doe - doe \div 1460 + doe \div 36524 - doe \div 146096) \div 365)

\* [y, m, d] of a day number (m in 1..12)
CivilFromDays(z) == CivilOfDayOfEra((z + 719468) \div 146097, (z + 719468) % 146097)

\* Date.prototype getters; getMonth is 0-based, getDay is 0 = Sunday
getFullYear(date) == CivilFromDays(date.day).y
getMonth(date) == CivilFromDays(date.day).m - 1
getDate(date) == CivilFromDays(date.day).d
getDay(date) == (date.day + 4) % 7
getHours(date) == date.tod \div MsPerHour
getMinutes(date) == (date.tod % MsPerHour) \div MsPerMinute

\* new Date(year, month, day): month is 0-based, a day past the month's end
\* overflows into the following month; local midnight
NewDate(year, month, day) ==
    [day |-> DaysFromCivil(year + (month \div 12), (month % 12) + 1, 1) + day - 1, tod |-> 0]

\* a Date whose time value is NaN
InvalidDate == [invalid |-> TRUE]
isValid(date) == date # InvalidDate

\* the time value of a Date is at most 8.64e15 ms from the epoch, 100,000,000 days
MaxDateDay == 10000 * 10000

\* TimeClip: a time value outside the range is NaN
TimeClip(day, tod) ==
    IF (day > -MaxDateDay /\ day < MaxDateDay) \/ (day = MaxDateDay /\ tod = 0)
       \/ day = -MaxDateDay
    THEN [day |-> day, tod |-> tod]
    ELSE InvalidDate

\* parsedDate < now
DateBefore(a, b) == a.day < b.day \/ (a.day = b.day /\ a.tod < b.tod)

\* date-fns addDays: setDate(getDate() + amount)
addDays(date, amount) ==
    IF isValid(date) THEN TimeClip(date.day + amount, date.tod) ELSE InvalidDate

\* the day of month c.d is clamped to the length of the target month, whose last day
\* is endOfMonth
ClampedMonth(date, amount, c, endOfMonth) ==
    IF c.d >= getDate(endOfMonth)
    THEN [day |-> endOfMonth.day, tod |-> date.tod]
    ELSE [day |-> NewDate(c.y, c.m - 1 + amount, c.d).day, tod |-> date.tod]

AddMonthsCivil(date, amount, c) ==
    ClampedMonth(date, amount, c, NewDate(c.y, c.m - 1 + amount + 1, 0))

\* date-fns addMonths
addMonths(date, amount) == AddMonthsCivil(date, amount, CivilFromDays(date.day))

endOfDay(date) == [day |-> date.day, tod |-> MsPerDay - 1]
startOfDay(date) == [day |-> date.day, tod |-> 0]

setMinutes(date, minutes) ==
    IF isValid(date)
    THEN [day |-> date.day,
          tod |-> date.tod - getMinutes(date) * MsPerMinute + minutes * MsPerMinute]
    ELSE InvalidDate
setHours(date, hours) ==
    IF isValid(date)
    THEN [day |-> date.day,
          tod |-> date.tod - getHours(date) * MsPerHour + hours * MsPerHour]
    ELSE InvalidDate

\* "yyyy-MM-dd" of the civil date c
FormatCivil(c) ==
    PadStart(NatToString(c.y), 4) \o "-" \o PadStart(NatToString(c.m), 2)
    \o "-" \o PadStart(NatToString(c.d), 2)

\* " HH:mm"
FormatTime(date) ==
    " " \o PadStart(NatToString(getHours(date)), 2) \o ":"
    \o PadStart(NatToString(getMinutes(date)), 2)

\* date-fns format(date, "yyyy-MM-dd") and format(date, "yyyy-MM-dd HH:mm")
formatDateForInput(date, includeTime) ==
    IF ~isValid(date) THEN ""
    ELSE FormatCivil(CivilFromDays(date.day))
         \o (IF includeTime THEN FormatTime(date) ELSE "")

-----------------------------------------------------------------------------
(* parseSmartDateString: confidence arithmetic                             *)

\* confidences in units of 1/10000
TimeWeight == 3000
WeekdayWeight == 8000
NextWeekdayWeight == 8500
MonthDayWeight == 7500
FallbackWeight == 5000
MinConfidence == 3000
MaxConfidence == 10000

\* a + b in IEEE doubles: of the sums the engine forms, 0.7 + 0.2 alone is not
\* the decimal sum (it is 0.8999999999999999)
FloatAdd(a, b) == IF {a, b} = {7000, 2000} THEN 8999 ELSE a + b

\* Math.max in the place of Math.min: the confidence is not capped
MathMax(a, b) == IF a < b THEN b ELSE a

MathMin(a, b) == IF a < b THEN a ELSE b

-----------------------------------------------------------------------------
(* parseSmartDateString: the Time Extractor                                *)

\* the loop over timePatterns: the first pattern that matches, then break
TimeMatch(trimmed) == FirstOk(timePatterns(trimmed))

\* 12-hour to 24-hour
ToHours24(hours, ampm) ==
    IF ampm = "pm" /\ hours # 12 THEN hours + 12
    ELSE IF ampm = "am" /\ hours = 12 THEN 0
    ELSE hours

\* the range check of the extracted time
ValidTime(hours, minutes) ==
    [valid   |-> /\ ~IsNaN(hours) /\ ~IsNaN(minutes)
                 /\ hours >= 0 /\ hours <= 23 /\ minutes >= 0 /\ minutes <= 59,
     hours   |-> hours,
     minutes |-> minutes]

\* hours and minutes of a time match, and whether the range check accepts them
ExtractTime(timeMatch) ==
    ValidTime(ToHours24(parseInt(timeMatch.g1),
                        IF timeMatch.g3 # Undefined THEN toLowerCase(timeMatch.g3)
                        ELSE Undefined),
              IF timeMatch.g2 # Undefined THEN parseInt(timeMatch.g2) ELSE 0)

\* the time token is left in the text handed to the date resolvers
InputWithTimeKept(trimmed, timeMatch) == trimmed

\* the text handed to the date resolvers
InputWithoutTime(trimmed, timeMatch) ==
    IF timeMatch.ok THEN trim(removeFirst(trimmed, timeMatch.text)) ELSE trimmed

-----------------------------------------------------------------------------
(* parseSmartDateString: the Relative Resolver                             *)

NoDate == [none |-> TRUE]
Unresolved == [date |-> NoDate, weight |-> 0, matched |-> Undefined]

\* a match of the whole text with one group
WholeMatch(text, g1) == Matched(text, 1, Len(text) + 1, g1, Undefined, Undefined)

\* /^in (\d+) days?$/i with n digits
InDaysDigits(text, n) ==
    IF startsWith(text, "in ") /\ n >= 1 /\ Slice(text, 4 + n, Len(text)) \in {" day", " days"}
    THEN WholeMatch(text, Slice(text, 4, 3 + n))
    ELSE NoMatch

InDaysMatch(text) == InDaysDigits(text, DigitRun(text, 4))

\* /^(\d+) days? ago$/i with n digits
DaysAgoDigits(text, n) ==
    IF n >= 1 /\ Slice(text, 1 + n, Len(text)) \in {" day ago", " days ago"}
    THEN WholeMatch(text, Slice(text, 1, n))
    ELSE NoMatch

DaysAgoMatch(text) == DaysAgoDigits(text, DigitRun(text, 1))

\* an anchored alternation of literal phrases, /^(a|b)$/i
PhraseMatch(text, phrases) == IF text \in phrases THEN WholeMatch(text, text) ELSE NoMatch

\* the ordered rule table: the match of each rule, its effect and its weight
relativePatterns(text) ==
    <<[match |-> PhraseMatch(text, {"today", "now"}), effect |-> "days", days |-> 0,
       confidence |-> 9000],
      [match |-> PhraseMatch(text, {"tomorrow"}), effect |-> "days", days |-> 1,
       confidence |-> 9000],
      [match |-> PhraseMatch(text, {"yesterday"}), effect |-> "days", days |-> -1,
       confidence |-> 9000],
      [match |-> PhraseMatch(text, {"next week", "in a week"}), effect |-> "days", days |-> 7,
       confidence |-> 8000],
      [match |-> PhraseMatch(text, {"last week", "a week ago"}), effect |-> "days",
       days |-> -7, confidence |-> 8000],
      [match |-> PhraseMatch(text, {"next month", "in a month"}), effect |-> "months",
       months |-> 1, confidence |-> 8000],
      [match |-> PhraseMatch(text, {"last month", "a month ago"}), effect |-> "months",
       months |-> -1, confidence |-> 8000],
      [match |-> InDaysMatch(text), effect |-> "inDays", days |-> 0, confidence |-> 8500],
      [match |-> DaysAgoMatch(text), effect |-> "daysAgo", days |-> 0, confidence |-> 8500],
      [match |-> PhraseMatch(text, {"end of day", "eod"}), effect |-> "endOfDay", days |-> 0,
       confidence |-> 7000],
      [match |-> PhraseMatch(text, {"start of day", "beginning of day"}),
       effect |-> "startOfDay", days |-> 0, confidence |-> 7000]>>

\* the handler (or the day offset) of a rule, applied to now
RelativeEffect(rule, nowDate) ==
    CASE rule.effect = "days"       -> addDays(nowDate, rule.days)
      [] rule.effect = "months"     -> addMonths(nowDate, rule.months)
      [] rule.effect = "inDays"     -> addDays(nowDate, parseInt(rule.match.g1))
      [] rule.effect = "daysAgo"    -> addDays(nowDate, -parseInt(rule.match.g1))
      [] rule.effect = "endOfDay"   -> endOfDay(nowDate)
      [] rule.effect = "startOfDay" -> startOfDay(nowDate)

\* the body of the loop for the rule at (0-based) index `at`, -1 when no rule matches
RelativeRule(rules, at, nowDate) ==
    IF at = -1 THEN Unresolved
    ELSE [date    |-> RelativeEffect(rules[at + 1], nowDate),
          weight  |-> rules[at + 1].confidence,
          matched |-> rules[at + 1].match.text]

\* the loop over the rules: the first rule that matches, then break
FirstRelativeRule(rules, nowDate) ==
    RelativeRule(rules, findIndex([k \in 1..Len(rules) |-> rules[k].match.ok]), nowDate)

RelativeResolver(inputWithoutTime, nowDate) ==
    FirstRelativeRule(relativePatterns(inputWithoutTime), nowDate)

-----------------------------------------------------------------------------
(* parseSmartDateString: the Weekday Resolver                              *)

weekdays == <<"monday", "tuesday", "wednesday", "thursday", "friday", "saturday", "sunday">>

WeekdayNames == {weekdays[k] : k \in 1..Len(weekdays)}

\* the alternative with (next\s+), the spaces ending before `nameAt`
NextWeekdayMatch(text, nameAt) ==
    IF startsWith(text, "next") /\ nameAt > 5 /\ Slice(text, nameAt, Len(text)) \in WeekdayNames
    THEN Matched(text, 1, Len(text) + 1, Slice(text, 1, nameAt - 1),
                 Slice(text, nameAt, Len(text)), Undefined)
    ELSE NoMatch

\* /^(next\s+)?(monday|...|sunday)$/i
WeekdayMatch(text) ==
    IF text \in WeekdayNames
    THEN Matched(text, 1, Len(text) + 1, Undefined, text, Undefined)
    ELSE NextWeekdayMatch(text, 5 + SpaceRun(text, 5))

\* a resolver that adds the week for "next" only
DaysUntilNextOnly(isNext, difference) == IF isNext THEN difference + 7 ELSE difference

\* targetDay - today, plus 7 for "next" or for a day that is not ahead this week
DaysUntilTarget(isNext, difference) ==
    IF isNext \/ difference <= 0 THEN difference + 7 ELSE difference

\* 1 = Monday, 7 = Sunday
TodayIndex(nowDate) == IF getDay(nowDate) = 0 THEN 7 ELSE getDay(nowDate)

WeekdayTarget(weekdayMatch, isNext, targetDayIndex, nowDate) ==
    IF targetDayIndex = -1 THEN Unresolved
    ELSE [date    |-> addDays(nowDate,
                              DaysUntilTarget(isNext,
                                              targetDayIndex + 1 - TodayIndex(nowDate))),
          weight  |-> IF isNext THEN NextWeekdayWeight ELSE WeekdayWeight,
          matched |-> weekdayMatch.text]

WeekdayOfMatch(weekdayMatch, nowDate) ==
    IF ~weekdayMatch.ok THEN Unresolved
    ELSE WeekdayTarget(weekdayMatch, weekdayMatch.g1 # Undefined,
                       findIndex([k \in 1..Len(weekdays) |->
                                     weekdays[k] = toLowerCase(weekdayMatch.g2)]),
                       nowDate)

WeekdayResolver(inputWithoutTime, nowDate) ==
    WeekdayOfMatch(WeekdayMatch(inputWithoutTime), nowDate)

-----------------------------------------------------------------------------
(* parseSmartDateString: the Month/Day Resolver                            *)

\* the alternation (jan|january|...|december) of the two month-name patterns, in order;
\* the i flag of the patterns changes nothing: the text they see is lower case already
MonthAlternation ==
    <<"jan", "january", "feb", "february", "mar", "march", "apr", "april", "may",
      "jun", "june", "jul", "july", "aug", "august", "sep", "september",
      "oct", "october", "nov", "november", "dec", "december">>

\* the monthNames array of both month-name branches
monthNames ==
    <<"jan", "january", "feb", "february", "mar", "march", "apr", "april", "may",
      "jun", "june", "jul", "july", "aug", "august", "sep", "september",
      "oct", "october", "nov", "november", "dec", "december">>

MonthFirstSource ==
    "/\\b(jan|january|feb|february|mar|march|apr|april|may|jun|june|jul|july|aug|august|sep|september|oct|october|nov|november|dec|december)\\s+(\\d{1,2})(?:\\s+(?:at|@))?/i"
DayFirstSource ==
    "/\\b(\\d{1,2})\\s+(jan|january|feb|february|mar|march|apr|april|may|jun|june|jul|july|aug|august|sep|september|oct|october|nov|november|dec|december)/i"
NumericSource == "/\\b(\\d{1,2})[/-](\\d{1,2})\\b/"

\* the end of the optional (?:\s+(?:at|@)) after the day, the spaces ending before wordAt
AtSuffixEnd(s, afterDay, wordAt) ==
    IF wordAt > afterDay /\ startsWithAt(s, wordAt, "at") THEN wordAt + 2
    ELSE IF wordAt > afterDay /\ startsWithAt(s, wordAt, "@") THEN wordAt + 1
    ELSE afterDay

MonthFirstEnd(s, i, name, dayAt, afterDay) ==
    Matched(s, i, AtSuffixEnd(s, afterDay, afterDay + SpaceRun(s, afterDay)),
            Slice(s, i, i + Len(name) - 1), Slice(s, dayAt, afterDay - 1), Undefined)

\* the day, one or two digits (greedy), at dayAt
MonthFirstDay(s, i, name, dayAt) ==
    IF startsWithAt(s, i, name) /\ dayAt > i + Len(name) /\ IsDigit(CharAt(s, dayAt))
    THEN MonthFirstEnd(s, i, name, dayAt,
                       dayAt + (IF DigitRun(s, dayAt) >= 2 THEN 2 ELSE 1))
    ELSE NoMatch

\* month name first, with the alternative `name`: name \s+ \d{1,2} (?:\s+(?:at|@))?
MonthFirstTry(s, i, name) ==
    MonthFirstDay(s, i, name, i + Len(name) + SpaceRun(s, i + Len(name)))

MonthFirstAt(s, i) ==
    IF ~WordBoundary(s, i) THEN NoMatch
    ELSE FirstOk([k \in 1..Len(MonthAlternation) |-> MonthFirstTry(s, i, MonthAlternation[k])])

\* `found`: the (0-based) index of the first alternative that is at nameAt, -1 if none
DayFirstFound(s, i, afterDay, nameAt, found) ==
    IF AllDigitsIn(s, i, afterDay - 1) /\ nameAt > afterDay /\ found # -1
    THEN Matched(s, i, nameAt + Len(MonthAlternation[found + 1]), Slice(s, i, afterDay - 1),
                 Slice(s, nameAt, nameAt + Len(MonthAlternation[found + 1]) - 1), Undefined)
    ELSE NoMatch

DayFirstName(s, i, afterDay, nameAt) ==
    DayFirstFound(s, i, afterDay, nameAt,
                  findIndex([n \in 1..Len(MonthAlternation) |->
                                startsWithAt(s, nameAt, MonthAlternation[n])]))

\* day first, with k day digits: \d{1,2} \s+ then the first alternative found there
DayFirstTry(s, i, k) == DayFirstName(s, i, i + k, i + k + SpaceRun(s, i + k))

DayFirstAt(s, i) ==
    IF ~StartsNumber(s, i) THEN NoMatch
    ELSE FirstOk([k \in 1..Len(DigitCounts) |-> DayFirstTry(s, i, DigitCounts[k])])

\* numeric, with the separator at sepAt and the end at e: \d{1,2} [/-] \d{1,2} \b
NumericTry(s, i, sepAt, e) ==
    IF /\ AllDigitsIn(s, i, sepAt - 1)
       /\ CharAt(s, sepAt) \in {"/", "-"}
       /\ AllDigitsIn(s, sepAt + 1, e - 1)
       /\ WordBoundary(s, e)
    THEN Matched(s, i, e, Slice(s, i, sepAt - 1), Slice(s, sepAt + 1, e - 1), Undefined)
    ELSE NoMatch

\* the digit counts of the two numbers, in backtracking order
NumericShapes == <<<<2, 2>>, <<2, 1>>, <<1, 2>>, <<1, 1>>>>

NumericAt(s, i) ==
    IF ~StartsNumber(s, i) THEN NoMatch
    ELSE FirstOk([k \in 1..Len(NumericShapes) |->
                     NumericTry(s, i, i + NumericShapes[k][1],
                                i + NumericShapes[k][1] + 1 + NumericShapes[k][2])])

\* the three pattern shapes in order, each with its source text (pattern.toString())
monthPatterns(s) ==
    <<[source |-> MonthFirstSource, match |-> FirstOk([i \in 1..Len(s) |-> MonthFirstAt(s, i)])],
      [source |-> DayFirstSource, match |-> FirstOk([i \in 1..Len(s) |-> DayFirstAt(s, i)])],
      [source |-> NumericSource, match |-> FirstOk([i \in 1..Len(s) |-> NumericAt(s, i)])]>>

\* monthNames.findIndex((name) => monthStr.startsWith(name.substring(0, 3)))
MonthIndexOf(monthStr) ==
    findIndex([k \in 1..Len(monthNames) |-> startsWith(monthStr, Slice(monthNames[k], 1, 3))])

\* month (0-based) and day of a match of `pattern`, by the three branches of the code
MonthAndDay(pattern) ==
    IF includes(pattern.source, "jan|january")
    THEN [month |-> MonthIndexOf(toLowerCase(pattern.match.g1)) \div 2,
          day   |-> parseInt(pattern.match.g2)]
    ELSE IF /\ pattern.match.g2 # Undefined /\ pattern.match.g2 # ""
            /\ IsNaN(parseInt(pattern.match.g2))
    THEN [month |-> MonthIndexOf(toLowerCase(pattern.match.g2)) \div 2,
          day   |-> parseInt(pattern.match.g1)]
    ELSE [month |-> parseInt(pattern.match.g1) - 1, day |-> parseInt(pattern.match.g2)]

\* a resolver that never rolls the year forward
MonthDayThisYear(year, month, day, nowDate) == NewDate(year, month, day)

\* the date of an accepted month and day: this year, or next year when that is past
MonthDayInYear(year, month, day, nowDate) ==
    IF DateBefore(NewDate(year, month, day), nowDate) THEN NewDate(year + 1, month, day)
    ELSE NewDate(year, month, day)

MonthDayDate(month, day, nowDate) == MonthDayInYear(getFullYear(nowDate), month, day, nowDate)

\* the range check on month and day, and what follows it
AcceptMonthDay(match, md, nowDate) ==
    IF /\ ~IsNaN(md.month) /\ ~IsNaN(md.day)
       /\ md.month >= 0 /\ md.month <= 11 /\ md.day >= 1 /\ md.day <= 31
    THEN [date    |-> MonthDayDate(md.month, md.day, nowDate),
          weight  |-> MonthDayWeight,
          matched |-> match.text]
    ELSE Unresolved

\* the body of the loop for the pattern at (0-based) index `at`, -1 when none matches
MonthDayOfPattern(patterns, at, nowDate) ==
    IF at = -1 THEN Unresolved
    ELSE AcceptMonthDay(patterns[at + 1].match, MonthAndDay(patterns[at + 1]), nowDate)

\* the loop over the patterns: the first shape that matches, then break
FirstMonthPattern(patterns, nowDate) ==
    MonthDayOfPattern(patterns, findIndex([k \in 1..Len(patterns) |-> patterns[k].match.ok]),
                      nowDate)

MonthDayResolver(inputWithoutTime, nowDate) ==
    FirstMonthPattern(monthPatterns(inputWithoutTime), nowDate)

-----------------------------------------------------------------------------
(* parseSmartDateString: the Fallback Resolver, new Date(input)            *)

AllDigits(s) == s # "" /\ DigitRun(s, 1) = Len(s)

\* "-MM" after the year, with a month 1..12
IsoMonthOk(text, m) == AllDigits(Slice(text, 6, 7)) /\ CharAt(text, 5) = "-" /\ m >= 1 /\ m <= 12

\* "-DD" after the month, with a day of that month
IsoDayOk(text, y, m, d) ==
    /\ AllDigits(Slice(text, 9, 10)) /\ CharAt(text, 8) = "-"
    /\ d >= 1 /\ d <= getDate(NewDate(y, m, 0))

IsoDateOf(text, y, m, d) ==
    IF ~AllDigits(Slice(text, 1, 4)) THEN InvalidDate
    ELSE IF Len(text) = 4 THEN NewDate(y, 0, 1)
    ELSE IF Len(text) = 7 /\ IsoMonthOk(text, m) THEN NewDate(y, m - 1, 1)
    ELSE IF Len(text) = 10 /\ IsoMonthOk(text, m) /\ IsoDayOk(text, y, m, d)
    THEN NewDate(y, m - 1, d)
    ELSE InvalidDate

\* the date-only forms of the ECMAScript date-time string format (YYYY, YYYY-MM,
\* YYYY-MM-DD) with legal values, which every engine parses alike
IsoDate(text) ==
    IsoDateOf(text, parseInt(Slice(text, 1, 4)), parseInt(Slice(text, 6, 7)),
              parseInt(Slice(text, 9, 10)))

\* any other text is left to the engine's own heuristics, whose outcome `legacyOutcome`
\* (a date or Invalid Date) differs from engine to engine
OrLegacy(isoDate, legacyOutcome) == IF isoDate # InvalidDate THEN isoDate ELSE legacyOutcome

\* new Date(text)
NewDateFromString(text, legacyOutcome) == OrLegacy(IsoDate(text), legacyOutcome)

\* isValid(standardDate) and what follows it
FallbackOf(standardDate) ==
    IF standardDate # InvalidDate
    THEN [date |-> standardDate, weight |-> FallbackWeight, matched |-> Undefined]
    ELSE Unresolved

FallbackResolver(text, legacyOutcome) == FallbackOf(NewDateFromString(text, legacyOutcome))

-----------------------------------------------------------------------------
(* parseSmartDateString                                                    *)

\* the resolver chain: each family runs only if no earlier one produced a date
ThenFallback(text, legacyOutcome, relative, weekday, monthDay) ==
    [relative |-> relative, weekday |-> weekday, monthDay |-> monthDay,
     fallback |-> IF relative.date = NoDate /\ weekday.date = NoDate /\ monthDay.date = NoDate
                  THEN FallbackResolver(text, legacyOutcome) ELSE Unresolved]

ThenMonthDay(text, inputWithoutTime, nowDate, legacyOutcome, relative, weekday) ==
    ThenFallback(text, legacyOutcome, relative, weekday,
                 IF relative.date = NoDate /\ weekday.date = NoDate
                 THEN MonthDayResolver(inputWithoutTime, nowDate) ELSE Unresolved)

ThenWeekday(text, inputWithoutTime, nowDate, legacyOutcome, relative) ==
    ThenMonthDay(text, inputWithoutTime, nowDate, legacyOutcome, relative,
                 IF relative.date = NoDate
                 THEN WeekdayResolver(inputWithoutTime, nowDate) ELSE Unresolved)

ResolveDate(text, inputWithoutTime, nowDate, legacyOutcome) ==
    ThenWeekday(text, inputWithoutTime, nowDate, legacyOutcome,
                RelativeResolver(inputWithoutTime, nowDate))

\* the first family of the chain that produced a date
ResolvedBy(families) ==
    IF families.relative.date # NoDate THEN families.relative
    ELSE IF families.weekday.date # NoDate THEN families.weekday
    ELSE IF families.monthDay.date # NoDate THEN families.monthDay
    ELSE families.fallback

\* confidence += weight, for a family that produced a date
AddWeight(confidence, family) ==
    IF family.date # NoDate THEN FloatAdd(confidence, family.weight) ELSE confidence

\* the time weight is not added: `confidence = weight` in the place of `+=`
ConfidenceOfDateOnly(timeValid, families) ==
    AddWeight(AddWeight(AddWeight(AddWeight(0, families.relative), families.weekday),
                        families.monthDay), families.fallback)

\* the accumulated confidence: 0, += 0.3 for a valid time, += each family's weight
AccumulatedConfidence(timeValid, families) ==
    AddWeight(AddWeight(AddWeight(AddWeight(IF timeValid THEN FloatAdd(0, TimeWeight) ELSE 0,
                                            families.relative), families.weekday),
                        families.monthDay), families.fallback)

\* "Apply extracted time"
ApplyTime(date, time) == setHours(setMinutes(date, time.minutes), time.hours)

\* the two null returns and the returned object
ParseResult(text, timeMatch, time, families, parsedDate, confidence) ==
    IF parsedDate = NoDate THEN Null
    ELSE IF confidence < MinConfidence THEN Null
    ELSE [date           |-> IF time.valid THEN ApplyTime(parsedDate, time) ELSE parsedDate,
          confidence     |-> MathMin(confidence, MaxConfidence),
          originalInput  |-> text,
          parsedComponents |->
              [relative |-> families.relative.matched,
               time     |-> IF time.valid THEN timeMatch.text ELSE Undefined,
               weekday  |-> families.weekday.matched,
               date     |-> families.monthDay.matched]]

ParseResolved(text, timeMatch, time, families) ==
    ParseResult(text, timeMatch, time, families, ResolvedBy(families).date,
                AccumulatedConfidence(time.valid, families))

\* the time of the match, when there is one and it is in range
ExtractedTime(timeMatch) == IF timeMatch.ok THEN ExtractTime(timeMatch) ELSE [valid |-> FALSE]

ParseTimed(text, trimmed, timeMatch, nowDate, legacyOutcome) ==
    ParseResolved(text, timeMatch, ExtractedTime(timeMatch),
                  ResolveDate(text, InputWithoutTime(trimmed, timeMatch), nowDate,
                              legacyOutcome))

ParseTrimmed(text, trimmed, nowDate, legacyOutcome) ==
    ParseTimed(text, trimmed, TimeMatch(trimmed), nowDate, legacyOutcome)

parseSmartDateString(text, nowDate, legacyOutcome) ==
    IF text = "" \/ trim(text) = "" THEN Null
    ELSE ParseTrimmed(text, toLowerCase(trim(text)), nowDate, legacyOutcome)

-----------------------------------------------------------------------------
(* generateSmartSuggestions. `parse` is parseSmartDateString at the clock   *)
(* and on the engine of the call, as a function of the text.                *)

BoostWeight == 2000

RECURSIVE Flatten(_)
Flatten(seqs) == IF seqs = <<>> THEN <<>> ELSE Head(seqs) \o Flatten(Tail(seqs))

\* Array.prototype.slice(0, n)
Take(seq, n) == SubSeq(seq, 1, IF Len(seq) < n THEN Len(seq) ELSE n)

\* one suggestion; label and preview are display texts and are left out
Suggestion(value, confidence, category, parseResult) ==
    [value      |-> value,
     confidence |-> confidence,
     category   |-> category,
     parsedDate |-> IF parseResult = Null THEN NoDate ELSE parseResult.date]

\* a suggestion before its text is parsed
Candidate(value, confidence, category) ==
    [value |-> value, confidence |-> confidence, category |-> category]

WithParse(candidate, parse) ==
    Suggestion(candidate.value, candidate.confidence, candidate.category,
               parse[candidate.value])

\* the candidates, in order, that parse: "if (parseResult) push"
Validated(candidates, parse) ==
    LET Parses(c) == parse[c.value] # Null
        kept      == SelectSeq(candidates, Parses)
    IN [k \in 1..Len(kept) |-> WithParse(kept[k], parse)]

\* the empty-input branch: the curated set
baseSuggestions(withTime) ==
    <<Candidate("tomorrow", 10000, "relative"),
      Candidate("next week", 10000, "relative"),
      Candidate("next monday", 9000, "relative")>>
    \o (IF withTime
        THEN <<Candidate("tomorrow 10am", 9000, "relative"),
               Candidate("end of day", 8000, "relative")>>
        ELSE <<>>)

InitialLimit == 4

\* map(parse) and slice(0, 4)
MapParse(base, parse) == Take([k \in 1..Len(base) |-> WithParse(base[k], parse)], InitialLimit)

EmptyInputSuggestions(withTime, parse) == MapParse(baseSuggestions(withTime), parse)

\* a generator that lists the input itself without the boost
NaturalUnboosted(text, currentParse) ==
    IF currentParse # Null /\ currentParse.confidence > 5000
    THEN <<Suggestion(text, currentParse.confidence, "natural", currentParse)>>
    ELSE <<>>

\* the `natural` entry for the input itself
NaturalSuggestions(text, currentParse) ==
    IF currentParse # Null /\ currentParse.confidence > 5000
    THEN <<Suggestion(text, MathMin(FloatAdd(currentParse.confidence, BoostWeight),
                                    MaxConfidence),
                      "natural", currentParse)>>
    ELSE <<>>

timeKeywords == {"am", "pm", ":", "morning", "afternoon", "evening", "night"}

timeSuggestionBases ==
    <<[base |-> "today", times |-> <<"9am", "12pm", "2pm", "5pm">>],
      [base |-> "tomorrow", times |-> <<"9am", "10am", "2pm", "3pm">>]>>

TimeCandidates(trimmed, withTime) ==
    IF withTime /\ \E keyword \in timeKeywords : includes(trimmed, keyword)
    THEN Flatten([b \in 1..Len(timeSuggestionBases) |->
            [t \in 1..Len(timeSuggestionBases[b].times) |->
                Candidate(timeSuggestionBases[b].base \o " " \o timeSuggestionBases[b].times[t],
                          8500, "time")]])
    ELSE <<>>

months == <<"jan", "feb", "mar", "apr", "may", "jun", "jul", "aug", "sep", "oct", "nov", "dec">>

\* months.filter(month.includes(trimmed) || trimmed.includes(month))
matchedMonths(trimmed) ==
    LET Matches(month) == includes(month, trimmed) \/ includes(trimmed, month)
    IN SelectSeq(months, Matches)

\* [1, 15].filter(day <= the length of the month in the year of now)
DaysToShow(monthIndex, nowDate) ==
    LET Exists(day) == day <= getDate(NewDate(getFullYear(nowDate), monthIndex + 1, 0))
    IN SelectSeq(<<1, 15>>, Exists)

\* "<month> <day>" for the days to show, except the input itself
MonthDayCandidates(month, daysToShow, trimmed) ==
    LET NotInput(c) == c.value # trimmed
    IN SelectSeq([d \in 1..Len(daysToShow) |->
                     Candidate(month \o " " \o NatToString(daysToShow[d]), 6500, "date")],
                 NotInput)

MonthSuggestions(month, trimmed, nowDate) ==
    MonthDayCandidates(month,
                       DaysToShow(findIndex([k \in 1..Len(months) |-> months[k] = month]),
                                  nowDate),
                       trimmed)

\* the 1st and the 15th of the first matched month, unless the input itself parses with
\* confidence >= 0.7
MonthCandidates(trimmed, currentParse, nowDate) ==
    IF currentParse = Null \/ currentParse.confidence < 7000
    THEN Flatten([m \in 1..Len(Take(matchedMonths(trimmed), 1)) |->
            MonthSuggestions(matchedMonths(trimmed)[m], trimmed, nowDate)])
    ELSE <<>>

WeekdayTimes == <<"9am", "2pm", "5pm">>

WeekdayPrefixes == <<"", "next ">>

\* weekdays.filter(day.includes(trimmed) || trimmed.includes(day.substring(0, 3)))
matchedWeekdays(trimmed) ==
    LET Matches(day) == includes(day, trimmed) \/ includes(trimmed, Slice(day, 1, 3))
    IN SelectSeq(weekdays, Matches)

\* one form of a weekday, if it parses, followed by its time variants when time is enabled
WeekdayForm(suggestion, weight, withTime, parse) ==
    IF parse[suggestion] # Null
    THEN <<Candidate(suggestion, weight, "relative")>>
         \o (IF withTime
             THEN [t \in 1..Len(WeekdayTimes) |->
                     Candidate(suggestion \o " " \o WeekdayTimes[t], (weight * 9) \div 10,
                               "time")]
             ELSE <<>>)
    ELSE <<>>

\* for every matched weekday: the bare and the "next " form
WeekdayCandidates(trimmed, withTime, parse) ==
    Flatten([w \in 1..Len(matchedWeekdays(trimmed)) |->
        Flatten([p \in 1..Len(WeekdayPrefixes) |->
            WeekdayForm(WeekdayPrefixes[p] \o matchedWeekdays(trimmed)[w],
                        IF WeekdayPrefixes[p] # "" THEN 8500 ELSE 8000, withTime, parse)])])

ContextLimit == 8

RelativeLimit == 2

\* the keyword families, in order: the test of each and its canned phrases
relativeSuggestions(trimmed) ==
    <<[test |-> includes(trimmed, "today") \/ includes(trimmed, "now"),
       suggestions |-> <<"today", "today 9am", "today 2pm", "today 5pm", "end of day">>],
      [test |-> includes(trimmed, "tomorrow") \/ includes(trimmed, "tom"),
       suggestions |-> <<"tomorrow", "tomorrow 9am", "tomorrow 10am", "tomorrow 2pm">>],
      [test |-> includes(trimmed, "next") \/ includes(trimmed, "week"),
       suggestions |-> <<"next week", "next monday", "next friday", "in 7 days">>],
      [test |-> includes(trimmed, "month"),
       suggestions |-> <<"next month", "in 30 days", "end of month">>]>>

HasAmPm(text) == includes(text, "am") \/ includes(text, "pm")

\* the phrases kept of a family: without the timed ones when time is not enabled
PhraseCandidates(phrases, withTime) ==
    LET Kept(phrase) == withTime \/ ~HasAmPm(phrase)
        kept         == SelectSeq(phrases, Kept)
    IN [k \in 1..Len(kept) |->
           Candidate(kept[k], 8000, IF HasAmPm(kept[k]) THEN "time" ELSE "relative")]

\* the first two phrases of the family at (0-based) index `at`, -1 when none matches
FamilyCandidates(families, at, withTime) ==
    IF at = -1 THEN <<>>
    ELSE PhraseCandidates(Take(families[at + 1].suggestions, RelativeLimit), withTime)

\* the loop over the families: the first whose keyword the text contains, then break
FirstFamily(families, withTime) ==
    FamilyCandidates(families, findIndex([k \in 1..Len(families) |-> families[k].test]),
                     withTime)

RelativeCandidates(trimmed, withTime, currentParse) ==
    IF currentParse = Null \/ currentParse.confidence < 8000
    THEN FirstFamily(relativeSuggestions(trimmed), withTime)
    ELSE <<>>

\* no entry is dropped as a duplicate
KeepDuplicates(seq, seen) == seq

\* filter(index === self.findIndex(same value)): the first entry of each value
RECURSIVE Dedup(_, _)
Dedup(seq, seen) ==
    IF seq = <<>> THEN <<>>
    ELSE IF Head(seq).value \in seen THEN Dedup(Tail(seq), seen)
    ELSE <<Head(seq)>> \o Dedup(Tail(seq), seen \cup {Head(seq).value})

\* sort((a, b) => b.confidence - a.confidence): stable, descending
RECURSIVE InsertByConfidence(_, _)
InsertByConfidence(sorted, s) ==
    IF sorted = <<>> THEN <<s>>
    ELSE IF Head(sorted).confidence >= s.confidence
    THEN <<Head(sorted)>> \o InsertByConfidence(Tail(sorted), s)
    ELSE <<s>> \o sorted

RECURSIVE SortByConfidence(_, _)
SortByConfidence(seq, sorted) ==
    IF seq = <<>> THEN sorted
    ELSE SortByConfidence(Tail(seq), InsertByConfidence(sorted, Head(seq)))

\* no tiering: the defensive slice(0, 8) alone
UntieredFilter(filteredSuggestions) == Take(filteredSuggestions, 8)

\* the confidence-tiered cap
TierFilter(filteredSuggestions) ==
    LET High(s) == s.confidence >= 8500
        Good(s) == s.confidence >= 6000
    IN IF filteredSuggestions = <<>> THEN Take(filteredSuggestions, 8)
       ELSE IF filteredSuggestions[1].confidence >= 9000
       THEN Take(SelectSeq(filteredSuggestions, High), 3)
       ELSE IF filteredSuggestions[1].confidence >= 7000
       THEN Take(SelectSeq(filteredSuggestions, Good), 5)
       ELSE Take(filteredSuggestions, 6)

\* the contextual suggestions: time, month and weekday candidates that parse
ContextualSuggestions(trimmed, withTime, currentParse, nowDate, parse) ==
    Validated(TimeCandidates(trimmed, withTime)
              \o MonthCandidates(trimmed, currentParse, nowDate)
              \o WeekdayCandidates(trimmed, withTime, parse),
              parse)

\* suggestions, after push(...contextualSuggestions.slice(0, 8))
MainSuggestions(text, trimmed, withTime, currentParse, nowDate, parse) ==
    NaturalSuggestions(text, currentParse)
    \o Take(ContextualSuggestions(trimmed, withTime, currentParse, nowDate, parse),
            ContextLimit)

\* the relative suggestions that parse and are not listed already
WithRelative(main, relative) ==
    LET NotListed(s) == \A k \in 1..Len(main) : main[k].value # s.value
    IN main \o SelectSeq(relative, NotListed)

\* remove duplicates, drop non-positive confidences, sort by confidence
FilteredSuggestions(all) ==
    LET Positive(s) == s.confidence > 0
    IN SortByConfidence(SelectSeq(Dedup(all, {}), Positive), <<>>)

\* the branch for a text that is not empty
TypedSuggestions(text, trimmed, withTime, currentParse, nowDate, parse) ==
    TierFilter(FilteredSuggestions(
        WithRelative(MainSuggestions(text, trimmed, withTime, currentParse, nowDate, parse),
                     Validated(RelativeCandidates(trimmed, withTime, currentParse), parse))))

SuggestionsUsing(text, trimmed, withTime, nowDate, parse) ==
    IF trimmed = "" THEN EmptyInputSuggestions(withTime, parse)
    ELSE TypedSuggestions(text, trimmed, withTime, parse[text], nowDate, parse)

generateSmartSuggestions(text, withTime, nowDate, legacyOutcome) ==
    SuggestionsUsing(text, toLowerCase(trim(text)), withTime, nowDate,
                     [t \in STRING |-> parseSmartDateString(t, nowDate, legacyOutcome)])

-----------------------------------------------------------------------------
(* The clocks, engines and texts the engine is run on                      *)

\* the days of "now": ClockSpan consecutive days from Monday 2027-12-27, so that every
\* weekday, a year's end and the start of a leap year are among them
ClockSpan == 7
ClockDays == {DaysFromCivil(2027, 12, 27) + k : k \in 0..(ClockSpan - 1)}
\* midnight exactly, and 14:30:15.250
ClockTimes == {0, 14 * MsPerHour + 30 * MsPerMinute + 15250}
Clocks == {[day |-> d, tod |-> t] : d \in ClockDays, t \in ClockTimes}

\* what new Date(text) gives for a text outside the ECMAScript format: Invalid Date, or
\* a date of the engine's choosing
LegacyOutcomes == {InvalidDate, NewDate(2001, 0, 1)}

MaxDayNumber == 32
MaxMonthNumber == 13
MaxOffset == 3

SetOfSeq(seq) == {seq[k] : k \in 1..Len(seq)}

MonthFirstInputs ==
    {name \o " " \o NatToString(d) : name \in SetOfSeq(monthNames), d \in 0..MaxDayNumber}
DayFirstInputs ==
    {NatToString(d) \o " " \o name : d \in {1, 15, 31, MaxDayNumber},
                                     name \in SetOfSeq(MonthAlternation)}
NumericInputs ==
    {NatToString(a) \o sep \o NatToString(b) :
        a \in 0..MaxMonthNumber, b \in 0..MaxDayNumber, sep \in {"/"}}
    \cup {"12-25", "2-30", "02/03", "1/1/2028"}
RelativePhrases ==
    {"today", "now", "tomorrow", "yesterday", "next week", "in a week", "last week",
     "a week ago", "next month", "in a month", "last month", "a month ago",
     "end of day", "eod", "start of day", "beginning of day", "in 1 day", "1 day ago"}
    \cup {"in " \o NatToString(n) \o " days" : n \in 0..MaxOffset}
    \cup {NatToString(n) \o " days ago" : n \in 0..MaxOffset}
    \cup {"in " \o NatToString(MaxDateDay) \o " days"}
WeekdayPhrases ==
    SetOfSeq(weekdays) \cup {"next " \o w : w \in SetOfSeq(weekdays)}
TimeTokens ==
    {"7am", "2pm", "12am", "12pm", "2:30pm", "9:05 am", "14:30", "0:00", "25:00", "13pm",
     "7:75pm", "at 2pm", "at 7am"}
DatePhrases ==
    {"today", "tomorrow", "yesterday", "in 3 days", "end of day", "friday", "next friday",
     "oct 15", "15 oct", "12/25", "december 25", "hello"}
TimedInputs ==
    TimeTokens \cup {d \o " " \o t : d \in DatePhrases, t \in TimeTokens}
               \cup {"2pm tomorrow", "7am next monday", "3pm oct 15"}
OtherInputs ==
    {"", "  ", "hello", "2027", "2028-02", "2028-02-29", "2027-11-31", "Tomorrow",
     " tomorrow ", "Oct 15", "December 25", "NEXT FRIDAY 2PM", "oct 15 at", "dec 25 @ 3pm",
     "this thursday", "next  friday", "oct 155", "110am 10am", "jan 0 1/5",
     "jan 45 12/25", "0 feb 3/4", "45 jan", "jan 0", "9:15 2pm", "12:30am",
     "in " \o NatToString(MaxDateDay) \o " days 2pm"}

ParseInputs ==
    MonthFirstInputs \cup DayFirstInputs \cup NumericInputs \cup RelativePhrases
    \cup WeekdayPhrases \cup TimedInputs \cup OtherInputs

\* the classifier and the widget at rest
NoDueDate == dueDate = Null /\ status = ""
NoWidget ==
    /\ inputValue = ""
    /\ showSuggestions = FALSE
    /\ selectedSuggestionIndex = -1
    /\ currentParseResult = Null
    /\ focused = FALSE
    /\ blurTimers = 0
    /\ valueProp = Null

-----------------------------------------------------------------------------
(* Spec: one text is parsed, the date is formatted for editing and parsed again *)

\* every text at the first clock of the week, at midnight and in the afternoon; the
\* phrases whose date depends on the day of "now" at every clock
ClockInputs ==
    RelativePhrases \cup WeekdayPhrases
    \cup {"dec 29", "jan 1", "feb 29", "12/31", "1/2", "2/29", "15 oct", "tomorrow 7am",
          "next friday 2pm", "next friday at 2pm", "hello"}
FirstClocks == {c \in Clocks : \A d \in ClockDays : c.day <= d}
Scenarios == (ParseInputs \X FirstClocks) \cup (ClockInputs \X Clocks)

Init ==
    /\ \E scenario \in Scenarios : input = scenario[1] /\ now = scenario[2]
    /\ legacy \in LegacyOutcomes
    /\ showTime = FALSE
    /\ pc = "start"
    /\ result = Null
    /\ formatted = ""
    /\ reparsed = Null
    /\ suggestions = <<>>
    /\ chosen = 0
    /\ ticks = 0
    /\ NoDueDate
    /\ NoWidget

\* parseSmartDateString(input)
Parse ==
    /\ pc = "start"
    /\ result' = parseSmartDateString(input, now, legacy)
    /\ pc' = "parsed"
    /\ UNCHANGED <<now, legacy, input, showTime, formatted, reparsed, suggestions, chosen>>
    /\ UNCHANGED <<ticks, due, widget>>

\* formatDateForInput(result.date, includeTime)
Format ==
    /\ pc = "parsed"
    /\ result # Null
    /\ \E includeTime \in BOOLEAN : formatted' = formatDateForInput(result.date, includeTime)
    /\ pc' = "formatted"
    /\ UNCHANGED <<now, legacy, input, showTime, result, reparsed, suggestions, chosen>>
    /\ UNCHANGED <<ticks, due, widget>>

\* parseSmartDateString of the formatted text
Reparse ==
    /\ pc = "formatted"
    /\ reparsed' = parseSmartDateString(formatted, now, legacy)
    /\ pc' = "reparsed"
    /\ UNCHANGED <<now, legacy, input, showTime, result, formatted, suggestions, chosen>>
    /\ UNCHANGED <<ticks, due, widget>>

Next == Parse \/ Format \/ Reparse

Spec == Init /\ [][Next]_vars

-----------------------------------------------------------------------------
(* SpecSuggest: suggestions are generated for a text as it is typed, and one of *)
(* the returned values is parsed                                               *)

MaxTyped == 16

TypedPhrases ==
    {"tomorrow 9am", "today 2pm", "next friday 2pm", "monday", "wednesday 5pm", "sunday",
     "oct 15", "december 25", "jan 1", "next month", "next week", "in 3 days", "end of day",
     "12/25", "15 oct", "2:30pm", "morning", "Monday", "now", "eod", "  ", "hello 7am"}
\* every prefix of a phrase, up to MaxTyped characters
SuggestInputs == {Slice(p, 1, n) : p \in TypedPhrases, n \in 0..MaxTyped}

InitSuggest ==
    /\ now \in FirstClocks
    /\ legacy \in LegacyOutcomes
    /\ input \in SuggestInputs
    /\ showTime \in BOOLEAN
    /\ pc = "start"
    /\ result = Null
    /\ formatted = ""
    /\ reparsed = Null
    /\ suggestions = <<>>
    /\ chosen = 0
    /\ ticks = 0
    /\ NoDueDate
    /\ NoWidget

\* generateSmartSuggestions(input, showTime)
Suggest ==
    /\ pc = "start"
    /\ suggestions' = generateSmartSuggestions(input, showTime, now, legacy)
    /\ pc' = "suggested"
    /\ UNCHANGED <<now, legacy, input, showTime, result, formatted, reparsed, chosen>>
    /\ UNCHANGED <<ticks, due, widget>>

\* parseSmartDateString of the value of one returned suggestion
ParseSuggestion ==
    /\ pc = "suggested"
    /\ \E i \in 1..Len(suggestions) :
          /\ chosen' = i
          /\ result' = parseSmartDateString(suggestions[i].value, now, legacy)
    /\ pc' = "checked"
    /\ UNCHANGED <<now, legacy, input, showTime, formatted, reparsed, suggestions>>
    /\ UNCHANGED <<ticks, due, widget>>

NextSuggest == Suggest \/ ParseSuggestion

SpecSuggest == InitSuggest /\ [][NextSuggest]_vars

-----------------------------------------------------------------------------
(* SpecClock: the calls made for one keystroke, generateSmartSuggestions and   *)
(* then parseSmartDateString of the same text, and a later parse of the same   *)
(* text. Every call reads the system clock itself (const now = new Date()),    *)
(* and the clock may advance between two calls.                                *)

MaxTicks == 2

\* the time that may pass between two readings of the clock: 1 ms, or a day
Elapsed == {1, MsPerDay}

Advance(date, ms) ==
    [day |-> date.day + ((date.tod + ms) \div MsPerDay), tod |-> (date.tod + ms) % MsPerDay]

KeystrokeInputs ==
    {"now", "today", "tomorrow", "end of day", "friday", "next friday", "oct 15", "jan 1",
     "in 3 days", "tomorrow 9am", "2pm", "hello", ""}

InitClock ==
    /\ now \in Clocks
    /\ legacy \in LegacyOutcomes
    /\ input \in KeystrokeInputs
    /\ showTime \in BOOLEAN
    /\ pc = "start"
    /\ result = Null
    /\ formatted = ""
    /\ reparsed = Null
    /\ suggestions = <<>>
    /\ chosen = 0
    /\ ticks = 0
    /\ NoDueDate
    /\ NoWidget

\* the system clock advances between two calls
Tick ==
    /\ pc \in {"generated", "parsed"}
    /\ ticks < MaxTicks
    /\ \E ms \in Elapsed : now' = Advance(now, ms)
    /\ ticks' = ticks + 1
    /\ UNCHANGED <<legacy, input, showTime, pc, result, formatted, reparsed, suggestions,
                   chosen, due, widget>>

\* handleInputChange: generateSmartSuggestions(newValue, showTime)
GenerateForKeystroke ==
    /\ pc = "start"
    /\ suggestions' = generateSmartSuggestions(input, showTime, now, legacy)
    /\ pc' = "generated"
    /\ UNCHANGED <<now, legacy, input, showTime, result, formatted, reparsed, chosen>>
    /\ UNCHANGED <<ticks, due, widget>>

\* handleInputChange: parseSmartDateString(newValue)
ParseForKeystroke ==
    /\ pc = "generated"
    /\ result' = parseSmartDateString(input, now, legacy)
    /\ pc' = "parsed"
    /\ UNCHANGED <<now, legacy, input, showTime, formatted, reparsed, suggestions, chosen>>
    /\ UNCHANGED <<ticks, due, widget>>

\* a second call parseSmartDateString(newValue) with the same argument
ParseAgain ==
    /\ pc = "parsed"
    /\ reparsed' = parseSmartDateString(input, now, legacy)
    /\ pc' = "again"
    /\ UNCHANGED <<now, legacy, input, showTime, result, formatted, suggestions, chosen>>
    /\ UNCHANGED <<ticks, due, widget>>

NextClock == Tick \/ GenerateForKeystroke \/ ParseForKeystroke \/ ParseAgain

SpecClock == InitClock /\ [][NextClock]_vars

-----------------------------------------------------------------------------
(* SpecDue: getDueDateStatus classifies one timestamp. A timestamp is a Date  *)
(* record, the timestamp 0 is 1970-01-01 00:00:00.000, an absent one is Null   *)
(* (null and undefined take the same branch).                                  *)

Epoch == [day |-> 0, tod |-> 0]

\* !dueDate: null, undefined, the number 0 and NaN are falsy
Falsy(timestamp) == timestamp = Null \/ timestamp = Epoch \/ timestamp = InvalidDate

\* a <= b for two timestamps
DateAtMost(a, b) == ~DateBefore(b, a)

\* today.setHours(23, 59, 59, 999)
EndOfToday(today) == [day |-> today.day, tod |-> MsPerDay - 1]

\* tomorrow.setDate(tomorrow.getDate() + 1); tomorrow.setHours(23, 59, 59, 999)
EndOfTomorrow(today) == [day |-> EndOfToday(today).day + 1, tod |-> MsPerDay - 1]

\* the status for a timestamp, with the two readings of the clock: Date.now() and
\* new Date()
getDueDateStatus(timestamp, dateNow, today) ==
    IF Falsy(timestamp) THEN "no-due-date"
    ELSE IF DateBefore(timestamp, dateNow) THEN "overdue"
    ELSE IF DateAtMost(timestamp, EndOfToday(today)) THEN "due-today"
    ELSE IF DateAtMost(timestamp, EndOfTomorrow(today)) THEN "due-soon"
    ELSE "not-due"

\* the clocks of the classifier: midnight, the afternoon and the last millisecond
DueClocks ==
    Clocks \cup {[day |-> d, tod |-> MsPerDay - 1] : d \in ClockDays}

MaxDueDays == 3

\* timestamps around now and around the ends of the days that follow
DueOffsets ==
    {-MsPerDay, -MsPerHour, -1, 0, 1, MsPerMinute, MsPerHour, 12 * MsPerHour}
    \cup {k * MsPerDay : k \in 1..MaxDueDays}
DueDates(clock) ==
    {Null, Epoch}
    \cup {IF ms >= 0 THEN Advance(clock, ms)
          ELSE Advance([day |-> clock.day - 1, tod |-> clock.tod], MsPerDay + ms) :
            ms \in DueOffsets}
    \cup {[day |-> clock.day + k, tod |-> t] : k \in 0..MaxDueDays, t \in {0, MsPerDay - 1}}

InitDue ==
    /\ now \in DueClocks
    /\ dueDate \in DueDates(now)
    /\ status = ""
    /\ legacy = InvalidDate
    /\ input = ""
    /\ showTime = FALSE
    /\ pc = "start"
    /\ result = Null
    /\ formatted = ""
    /\ reparsed = Null
    /\ suggestions = <<>>
    /\ chosen = 0
    /\ ticks = 0
    /\ NoWidget

\* getDueDateStatus(dueDate); between Date.now() and new Date() the clock may advance
DueDateStatus ==
    /\ pc = "start"
    /\ \E ms \in {0, 1} :
          /\ status' = getDueDateStatus(dueDate, now, Advance(now, ms))
          /\ ticks' = ms
    /\ pc' = "classified"
    /\ UNCHANGED <<now, legacy, input, showTime, result, formatted, reparsed, suggestions,
                   chosen, dueDate, widget>>

NextDue == DueDateStatus

SpecDue == InitDue /\ [][NextDue]_vars

-----------------------------------------------------------------------------
(* SpecWidget: the SmartDateInput component. valueProp is its `value`          *)
(* property: the parent hands back what onChange gave it (value={date}         *)
(* onChange={setDate}), and the effect on [value, showTime] then rewrites the  *)
(* input. selectedSuggestionIndex is 0-based, as in the component.             *)

WidgetTexts == {"", "friday", "tom", "oct 15", "hello", "in 3 days"}

\* the values the parent may set by itself
ExternalValues == {Null, NewDate(2028, 0, 15)}

\* useEffect on [value, showTime]: the input shows the value, once the value changed
EffectInput(newValue, shown, withTime) ==
    IF newValue = valueProp THEN shown
    ELSE IF Falsy(newValue) THEN ""
    ELSE formatDateForInput(newValue, withTime)

InitWidget ==
    /\ now \in FirstClocks
    /\ legacy \in LegacyOutcomes
    /\ showTime = FALSE
    /\ input = ""
    /\ pc = "idle"
    /\ result = Null
    /\ formatted = ""
    /\ reparsed = Null
    /\ chosen = 0
    /\ ticks = 0
    /\ NoDueDate
    /\ suggestions = <<>>
    /\ NoWidget

\* what no handler of the widget writes
widgetFrame == <<now, legacy, showTime, input, result, formatted, reparsed, chosen, ticks, due>>
focus == <<focused, blurTimers>>

MaxBlurTimers == 2

\* the state writes of handleInputChange, given its two results
InputChanged(newValue, newSuggestions, parseResult) ==
    /\ suggestions' = newSuggestions
    /\ showSuggestions' = (Len(newSuggestions) > 0)
    /\ selectedSuggestionIndex' = -1
    /\ currentParseResult' = parseResult
    /\ IF newValue = ""
       THEN valueProp' = Null /\ inputValue' = EffectInput(Null, newValue, showTime)
       ELSE valueProp' = valueProp /\ inputValue' = newValue

\* handleInputChange: the user edits the text
handleInputChange ==
    /\ focused
    /\ \E newValue \in WidgetTexts :
          /\ newValue # inputValue
          /\ InputChanged(newValue, generateSmartSuggestions(newValue, showTime, now, legacy),
                          parseSmartDateString(newValue, now, legacy))
    /\ pc' = "typed"
    /\ UNCHANGED <<widgetFrame, focus>>

\* the state writes of handleSuggestionSelect, given the parse of the suggestion
SuggestionSelected(suggestionValue, parseResult) ==
    /\ showSuggestions' = FALSE
    /\ selectedSuggestionIndex' = -1
    /\ IF parseResult # Null
       THEN /\ valueProp' = parseResult.date
            /\ inputValue' = EffectInput(parseResult.date, suggestionValue, showTime)
       ELSE valueProp' = valueProp /\ inputValue' = suggestionValue
    /\ UNCHANGED <<suggestions, currentParseResult>>

handleSuggestionSelect(suggestionValue) ==
    SuggestionSelected(suggestionValue, parseSmartDateString(suggestionValue, now, legacy))

\* onMouseEnter of a suggestion shown
MouseEnterSuggestion ==
    /\ showSuggestions
    /\ \E index \in 0..(Len(suggestions) - 1) :
          /\ index # selectedSuggestionIndex
          /\ selectedSuggestionIndex' = index
    /\ pc' = "moved"
    /\ UNCHANGED <<inputValue, showSuggestions, suggestions, currentParseResult, valueProp>>
    /\ UNCHANGED <<widgetFrame, focus>>

\* onMouseDown of a suggestion shown
ClickSuggestion ==
    /\ showSuggestions
    /\ \E i \in 1..Len(suggestions) : handleSuggestionSelect(suggestions[i].value)
    /\ pc' = "selected"
    /\ UNCHANGED <<widgetFrame, focus>>

\* handleKeyDown, ArrowDown and ArrowUp
KeyArrow ==
    /\ focused
    /\ showSuggestions /\ Len(suggestions) > 0
    /\ \E key \in {"ArrowDown", "ArrowUp"} :
          selectedSuggestionIndex' =
              IF key = "ArrowDown"
              THEN (IF selectedSuggestionIndex < Len(suggestions) - 1
                    THEN selectedSuggestionIndex + 1 ELSE 0)
              ELSE (IF selectedSuggestionIndex > 0
                    THEN selectedSuggestionIndex - 1 ELSE Len(suggestions) - 1)
    /\ pc' = "moved"
    /\ UNCHANGED <<inputValue, showSuggestions, suggestions, currentParseResult, valueProp>>
    /\ UNCHANGED <<widgetFrame, focus>>

\* handleKeyDown, Enter with a suggestion selected. An index left over from a longer
\* list (handleFocus replaces the list and keeps the index) makes
\* suggestions[selectedSuggestionIndex].value throw before any state is written.
KeyEnterSelects ==
    /\ focused
    /\ showSuggestions /\ selectedSuggestionIndex >= 0
    /\ selectedSuggestionIndex < Len(suggestions)
    /\ handleSuggestionSelect(suggestions[selectedSuggestionIndex + 1].value)
    /\ pc' = "selected"
    /\ UNCHANGED <<widgetFrame, focus>>

\* handleKeyDown, Enter with no suggestions shown and a parse of confidence >= 0.5
KeyEnterCommits ==
    /\ focused
    /\ ~showSuggestions
    /\ currentParseResult # Null
    /\ currentParseResult.confidence >= 5000
    /\ valueProp' = currentParseResult.date
    /\ inputValue' = formatDateForInput(currentParseResult.date, showTime)
    /\ pc' = "committed"
    /\ UNCHANGED <<showSuggestions, suggestions, selectedSuggestionIndex, currentParseResult>>
    /\ UNCHANGED <<widgetFrame, focus>>

\* handleKeyDown, Tab: the selected suggestion, or the first one
KeyTab ==
    /\ focused
    /\ showSuggestions /\ Len(suggestions) > 0
    /\ selectedSuggestionIndex < Len(suggestions)
    /\ handleSuggestionSelect(
           suggestions[IF selectedSuggestionIndex >= 0 THEN selectedSuggestionIndex + 1
                       ELSE 1].value)
    /\ pc' = "selected"
    /\ UNCHANGED <<widgetFrame, focus>>

\* handleKeyDown, Escape
KeyEscape ==
    /\ focused
    /\ showSuggestions \/ selectedSuggestionIndex # -1
    /\ showSuggestions' = FALSE
    /\ selectedSuggestionIndex' = -1
    /\ pc' = "closed"
    /\ UNCHANGED <<inputValue, suggestions, currentParseResult, valueProp>>
    /\ UNCHANGED <<widgetFrame, focus>>

\* the state writes of handleFocus
Focused(newSuggestions) ==
    /\ suggestions' = newSuggestions
    /\ showSuggestions' = (Len(newSuggestions) > 0)

handleFocus ==
    /\ ~focused
    /\ Focused(generateSmartSuggestions(inputValue, showTime, now, legacy))
    /\ focused' = TRUE
    /\ pc' = "focused"
    /\ UNCHANGED <<inputValue, selectedSuggestionIndex, currentParseResult, valueProp,
                   blurTimers>>
    /\ UNCHANGED widgetFrame

\* handleBlur: the suggestions are hidden 150 ms later
handleBlur ==
    /\ focused
    /\ blurTimers < MaxBlurTimers
    /\ focused' = FALSE
    /\ blurTimers' = blurTimers + 1
    /\ pc' = "blurred"
    /\ UNCHANGED <<inputValue, showSuggestions, suggestions, selectedSuggestionIndex,
                   currentParseResult, valueProp>>
    /\ UNCHANGED widgetFrame

\* the callback of handleBlur's setTimeout
BlurTimeout ==
    /\ blurTimers > 0
    /\ blurTimers' = blurTimers - 1
    /\ showSuggestions' = FALSE
    /\ selectedSuggestionIndex' = -1
    /\ pc' = "closed"
    /\ UNCHANGED <<inputValue, suggestions, currentParseResult, valueProp, focused>>
    /\ UNCHANGED widgetFrame

\* the parent sets the value by itself; the effect rewrites the input
ExternalValueChange ==
    /\ \E newValue \in ExternalValues :
          /\ newValue # valueProp
          /\ valueProp' = newValue
          /\ inputValue' = EffectInput(newValue, inputValue, showTime)
    /\ pc' = "set"
    /\ UNCHANGED <<showSuggestions, suggestions, selectedSuggestionIndex, currentParseResult>>
    /\ UNCHANGED <<widgetFrame, focus>>

NextWidget ==
    \/ handleInputChange
    \/ MouseEnterSuggestion
    \/ ClickSuggestion
    \/ KeyArrow
    \/ KeyEnterSelects
    \/ KeyEnterCommits
    \/ KeyTab
    \/ KeyEscape
    \/ handleFocus
    \/ handleBlur
    \/ BlurTimeout
    \/ ExternalValueChange

SpecWidget == InitWidget /\ [][NextWidget]_vars

-----------------------------------------------------------------------------
(* The texts the claims speak of                                           *)

SameCalendarDay(a, b) == a.day = b.day

\* the text before and after the first space
BeforeSpace(text) == Slice(text, 1, indexOf(text, " ") - 1)
AfterSpace(text) == Slice(text, indexOf(text, " ") + 1, Len(text))

\* the calendar month (0-based) a month name stands for
CalendarMonth(name) == findIndex([k \in 1..Len(months) |-> months[k] = Slice(name, 1, 3)])

DayExists(year, month, day) == day >= 1 /\ day <= getDate(NewDate(year, month + 1, 0))

\* "<name> <d>": a month name of the 23, one space, one or two digits
IsMonthNameDay(text) ==
    /\ indexOf(text, " ") > 0
    /\ BeforeSpace(text) \in SetOfSeq(monthNames)
    /\ AllDigits(AfterSpace(text)) /\ Len(AfterSpace(text)) <= 2

\* "<d> <name>"
IsDayMonthName(text) ==
    /\ indexOf(text, " ") > 0
    /\ AllDigits(BeforeSpace(text)) /\ Len(BeforeSpace(text)) <= 2
    /\ AfterSpace(text) \in SetOfSeq(monthNames)

\* "a/b" or "a-b", each of one or two digits
SeparatorAt(text) ==
    IF indexOf(text, "/") > 0 THEN indexOf(text, "/") ELSE indexOf(text, "-")
IsNumericPair(text) ==
    /\ SeparatorAt(text) > 0
    /\ AllDigits(Slice(text, 1, SeparatorAt(text) - 1)) /\ SeparatorAt(text) <= 3
    /\ AllDigits(Slice(text, SeparatorAt(text) + 1, Len(text)))
    /\ Len(text) - SeparatorAt(text) <= 2
NumericLeft(text) == parseInt(Slice(text, 1, SeparatorAt(text) - 1))
NumericRight(text) == parseInt(Slice(text, SeparatorAt(text) + 1, Len(text)))

-----------------------------------------------------------------------------
(* Claims about parseSmartDateString, under Spec                           *)

\* C1: for every month name (short or long) and every day d that exists in that month,
\* parsing "<name> <d>" gives a date in that calendar month on day d, with
\* parsedComponents.date set.
C1_MonthNameResolvesToItsMonth ==
    (/\ pc = "parsed"
     /\ IsMonthNameDay(input)
     /\ DayExists(getFullYear(now), CalendarMonth(BeforeSpace(input)),
                  parseInt(AfterSpace(input)))
     /\ DayExists(getFullYear(now) + 1, CalendarMonth(BeforeSpace(input)),
                  parseInt(AfterSpace(input))))
    => /\ result # Null
       /\ result.parsedComponents.date # Undefined
       /\ getMonth(result.date) = CalendarMonth(BeforeSpace(input))
       /\ getDate(result.date) = parseInt(AfterSpace(input))

\* C2: a day-first text "<day> <month-name>" with 1 <= day <= 31 is accepted by the
\* Month/Day Resolver: parsedComponents.date is set, the weight 0.75 is the confidence,
\* and the date is in that month, in the current or the next year.
C2_DayFirstAcceptedByMonthDay ==
    (/\ pc = "parsed"
     /\ IsDayMonthName(input)
     /\ parseInt(BeforeSpace(input)) >= 1 /\ parseInt(BeforeSpace(input)) <= 31)
    => /\ result # Null
       /\ result.parsedComponents.date # Undefined
       /\ result.confidence = 7500
       /\ getFullYear(result.date) \in {getFullYear(now), getFullYear(now) + 1}
       /\ DayExists(getFullYear(result.date), CalendarMonth(AfterSpace(input)),
                    parseInt(BeforeSpace(input)))
          => /\ getMonth(result.date) = CalendarMonth(AfterSpace(input))
             /\ getDate(result.date) = parseInt(BeforeSpace(input))

\* whether none of the four date families yields a date for the text, each family
\* taken by itself on the time-stripped text (the fallback on the untouched text)
NoFamilyResolves(text) ==
    LET trimmed          == toLowerCase(trim(text))
        inputWithoutTime == InputWithoutTime(trimmed, TimeMatch(trimmed))
    IN /\ RelativeResolver(inputWithoutTime, now).date = NoDate
       /\ WeekdayResolver(inputWithoutTime, now).date = NoDate
       /\ MonthDayResolver(inputWithoutTime, now).date = NoDate
       /\ FallbackResolver(text, legacy).date = NoDate

\* the confidence accumulated for the text, before the cut-off and the cap
AccumulatedFor(text) ==
    LET trimmed   == toLowerCase(trim(text))
        timeMatch == TimeMatch(trimmed)
    IN AccumulatedConfidence(
           timeMatch.ok /\ ExtractTime(timeMatch).valid,
           ResolveDate(text, InputWithoutTime(trimmed, timeMatch), now, legacy))

\* C3: a returned confidence c satisfies 0.3 <= c <= 1.0, and the parse returns null
\* exactly when the text is empty or blank, no family resolved a date, or the
\* accumulated confidence is below 0.3.
C3_ConfidenceRangeAndNull ==
    pc = "parsed"
    => /\ result # Null => result.confidence >= 3000 /\ result.confidence <= 10000
       /\ result = Null <=> \/ trim(input) = ""
                            \/ NoFamilyResolves(input)
                            \/ AccumulatedFor(input) < 3000

\* a returned parse whose confidence was capped: a time and a date both contributed
C3_Witness ==
    /\ pc = "parsed"
    /\ result # Null
    /\ result.parsedComponents.time # Undefined
    /\ AccumulatedFor(input) > 10000
    /\ result.confidence = 10000

\* the weight the rule table lists for a relative phrase
ListedRelativeWeight(phrase) ==
    IF phrase \in {"today", "now", "tomorrow", "yesterday"} THEN 9000
    ELSE IF phrase \in {"next week", "in a week", "last week", "a week ago", "next month",
                        "in a month", "last month", "a month ago"} THEN 8000
    ELSE IF phrase \in {"end of day", "eod", "start of day", "beginning of day"} THEN 7000
    ELSE 8500

\* the weight of the one date family whose component a result carries
ListedDateWeight(components) ==
    IF components.relative # Undefined THEN ListedRelativeWeight(components.relative)
    ELSE IF components.weekday # Undefined
    THEN (IF startsWith(components.weekday, "next") THEN 8500 ELSE 8000)
    ELSE IF components.date # Undefined THEN 7500
    ELSE 5000

FamiliesSet(components) ==
    {f \in {"relative", "weekday", "date"} : components[f] # Undefined}

C8_NumericIsMonthThenDay ==
    (/\ pc = "parsed"
     /\ IsNumericPair(input)
     /\ NumericLeft(input) >= 1 /\ NumericLeft(input) <= 12
     /\ NumericRight(input) >= 1 /\ NumericRight(input) <= 31)
    => /\ result # Null
       /\ getMonth(result.date) = NumericLeft(input) - 1
       /\ getDate(result.date) = NumericRight(input)

\* C9: a weekday or relative phrase joined to a time by "at" parses to a result with
\* the weekday or relative component and the time component set, and the hour of the
\* time token.
C9_AtJoinsDateAndTime ==
    \A phrase \in {"today", "tomorrow", "yesterday", "friday", "next friday"} :
        \A time \in {<<"2pm", 14>>, <<"7am", 7>>} :
            (pc = "parsed" /\ input = phrase \o " at " \o time[1])
            => /\ result # Null
               /\ \/ result.parsedComponents.weekday # Undefined
                  \/ result.parsedComponents.relative # Undefined
               /\ result.parsedComponents.time = time[1]
               /\ getHours(result.date) = time[2]

\* the relative phrases the round trip is claimed for
IsRoundTripPhrase(phrase) ==
    \/ phrase \in {"tomorrow", "yesterday", "next month"}
    \/ InDaysMatch(phrase).ok
    \/ DaysAgoMatch(phrase).ok

\* C10: for every date D resolved from a relative phrase, parsing the text
\* formatDateForInput(D, false) yields a date on the same calendar day as D.
C10_RoundTripKeepsTheDay ==
    (/\ pc = "reparsed"
     /\ result.parsedComponents.relative # Undefined
     /\ IsRoundTripPhrase(result.parsedComponents.relative)
     /\ formatted = formatDateForInput(result.date, FALSE))
    => /\ reparsed # Null
       /\ SameCalendarDay(reparsed.date, result.date)

-----------------------------------------------------------------------------
(* Claims about generateSmartSuggestions, under SpecSuggest                *)

\* C5: the value of every entry of a returned list parses to a non-null result under
\* the same clock.
C5_SuggestionsParse == pc = "checked" => result # Null

\* a contextual entry (not the input itself) of a list for a typed text was parsed
C5_Witness ==
    /\ pc = "checked"
    /\ trim(input) # ""
    /\ suggestions[chosen].category = "time"
    /\ result # Null

\* C6: a returned list has no two entries of the same value, its confidences are
\* non-increasing by position, and every confidence c satisfies 0 < c <= 1.0.
C6_DistinctSortedPositive ==
    pc = "suggested"
    => /\ \A i, j \in 1..Len(suggestions) :
            i < j => /\ suggestions[i].value # suggestions[j].value
                     /\ suggestions[i].confidence >= suggestions[j].confidence
       /\ \A i \in 1..Len(suggestions) :
            suggestions[i].confidence > 0 /\ suggestions[i].confidence <= 10000

\* a list in which the input itself leads and lower-ranked entries follow
C6_Witness ==
    /\ pc = "suggested"
    /\ Len(suggestions) >= 2
    /\ suggestions[1].category = "natural"
    /\ suggestions[1].confidence > suggestions[2].confidence

\* the confidence-tiered cap
TierCapHolds(list) ==
    \/ list = <<>>
    \/ IF list[1].confidence >= 9000
       THEN Len(list) <= 3 /\ \A i \in 1..Len(list) : list[i].confidence >= 8500
       ELSE IF list[1].confidence >= 7000
       THEN Len(list) <= 5 /\ \A i \in 1..Len(list) : list[i].confidence >= 6000
       ELSE Len(list) <= 6

-----------------------------------------------------------------------------
(* Claims about the resolvers of parseSmartDateString, under Spec          *)

\* the text handed to the date resolvers
TimeStripped(text) ==
    InputWithoutTime(toLowerCase(trim(text)), TimeMatch(toLowerCase(trim(text))))

\* the phrases of the rule table with a fixed effect
ListedPhrases ==
    {"today", "now", "tomorrow", "yesterday", "next week", "in a week", "last week",
     "a week ago", "next month", "in a month", "last month", "a month ago", "end of day",
     "eod", "start of day", "beginning of day"}

IsInDays(phrase) == InDaysMatch(phrase).ok
IsDaysAgo(phrase) == DaysAgoMatch(phrase).ok
IsRelativePhrase(phrase) == phrase \in ListedPhrases \/ IsInDays(phrase) \/ IsDaysAgo(phrase)

\* the number of days the rule table lists for a phrase that shifts by days
ListedDays(phrase) ==
    CASE phrase \in {"today", "now"}            -> 0
      [] phrase = "tomorrow"                    -> 1
      [] phrase = "yesterday"                   -> -1
      [] phrase \in {"next week", "in a week"}  -> 7
      [] phrase \in {"last week", "a week ago"} -> -7
      [] IsInDays(phrase)                       -> parseInt(InDaysMatch(phrase).g1)
      [] IsDaysAgo(phrase)                      -> -parseInt(DaysAgoMatch(phrase).g1)

\* now shifted by the offset the rule table lists for the phrase
ListedDate(phrase, nowDate) ==
    CASE phrase \in {"next month", "in a month"}            -> addMonths(nowDate, 1)
      [] phrase \in {"last month", "a month ago"}           -> addMonths(nowDate, -1)
      [] phrase \in {"end of day", "eod"}                   -> endOfDay(nowDate)
      [] phrase \in {"start of day", "beginning of day"}    -> startOfDay(nowDate)
      [] OTHER -> [day |-> nowDate.day + ListedDays(phrase), tod |-> nowDate.tod]

\* C11: when the time-stripped text is a phrase of the relative rule table, the result
\* carries that phrase as parsedComponents.relative, no other date family, the listed
\* weight (plus 0.3 for a valid time), and its date is now shifted by exactly the listed
\* offset ("in N days" by +N days for every N), with only the time of day replaced
\* when a time was extracted.
C11_RelativeRuleApplied ==
    (pc = "parsed" /\ IsRelativePhrase(TimeStripped(input)))
    => /\ result # Null
       /\ result.parsedComponents.relative = TimeStripped(input)
       /\ result.parsedComponents.weekday = Undefined
       /\ result.parsedComponents.date = Undefined
       /\ result.confidence
            = MathMin(ListedRelativeWeight(TimeStripped(input))
                        + (IF result.parsedComponents.time # Undefined THEN 3000 ELSE 0),
                      10000)
       /\ isValid(result.date)
       /\ result.date.day = ListedDate(TimeStripped(input), now).day
       /\ result.parsedComponents.time = Undefined
            => result.date = ListedDate(TimeStripped(input), now)

\* the same for the offsets that keep now + N days within the range of a Date
C11_RelativeRuleAppliedInRange ==
    (/\ pc = "parsed"
     /\ IsRelativePhrase(TimeStripped(input))
     /\ isValid(TimeClip(ListedDate(TimeStripped(input), now).day, 0)))
    => /\ result # Null
       /\ result.parsedComponents.relative = TimeStripped(input)
       /\ result.confidence
            = MathMin(ListedRelativeWeight(TimeStripped(input))
                        + (IF result.parsedComponents.time # Undefined THEN 3000 ELSE 0),
                      10000)
       /\ isValid(result.date)
       /\ result.date.day = ListedDate(TimeStripped(input), now).day
       /\ result.parsedComponents.time = Undefined
            => result.date = ListedDate(TimeStripped(input), now)

\* "in N days" parsed with N so large that now + N days is past the last Date
C11_OutOfRange ==
    /\ pc = "parsed"
    /\ IsInDays(input)
    /\ result # Null
    /\ ~isValid(result.date)


-----------------------------------------------------------------------------
(* Claims about the clock, under SpecClock                                 *)

\* the `natural` entries of a list
NaturalEntries(list) == SelectSeq(list, LAMBDA s : s.category = "natural")

\* C12: the parser and the generator are functions of their explicit arguments only:
\* a second parse of the same text returns a result equal to the first whenever it is
\* made, and the parse made for a keystroke sees the same "now" as the suggestion
\* generation for that keystroke (the generator's parse of the typed text, carried by
\* the `natural` entry, has the date of the parse that follows it).
C12_SameArgumentsSameResult ==
    /\ pc = "again" => reparsed = result
    /\ (pc \in {"parsed", "again"} /\ result # Null)
       => \A k \in 1..Len(NaturalEntries(suggestions)) :
             NaturalEntries(suggestions)[k].parsedDate = result.date

\* two parses of one text that differ, the clock having advanced by 1 ms only
C12_ResultsDiffer ==
    /\ pc = "again"
    /\ reparsed # result
    /\ reparsed # Null /\ result # Null
    /\ reparsed.date.day = result.date.day


-----------------------------------------------------------------------------
(* Claims about the `natural` entry, under SpecSuggest                     *)

\* what C13 lists for a text whose parse is currentParse
NaturalEntryAsListed(list, text, currentParse) ==
    IF currentParse # Null /\ currentParse.confidence > 5000
    THEN /\ Len(NaturalEntries(list)) = 1
         /\ list[1].category = "natural"
         /\ list[1].value = text
         /\ list[1].confidence = MathMin(FloatAdd(currentParse.confidence, 2000), 10000)
    ELSE Len(NaturalEntries(list)) = 0

\* C13: when the input parses with a confidence above 0.5 the returned list holds exactly
\* one `natural` entry, whose value is the raw input unchanged and whose confidence is
\* min(parse confidence + 0.2, 1.0), and it is the first entry; otherwise the list holds
\* no `natural` entry.
C13_NaturalEntryFirst ==
    pc \in {"suggested", "checked"}
    => NaturalEntryAsListed(suggestions, input, parseSmartDateString(input, now, legacy))

\* a text typed with a capital that parses: it is listed unchanged, first, before a
\* contextual entry
C13_Witness ==
    /\ pc = "suggested"
    /\ Len(suggestions) > 1
    /\ suggestions[1].category = "natural"
    /\ suggestions[1].value = input
    /\ suggestions[1].confidence = 10000
    /\ input # toLowerCase(trim(input))


-----------------------------------------------------------------------------
(* Claims about getDueDateStatus, under SpecDue                            *)

\* the status C14 lists for a timestamp at the time now
ListedStatus(timestamp, nowDate) ==
    IF timestamp = Null THEN "no-due-date"
    ELSE IF DateBefore(timestamp, nowDate) THEN "overdue"
    ELSE IF DateAtMost(timestamp, [day |-> nowDate.day, tod |-> MsPerDay - 1])
    THEN "due-today"
    ELSE IF DateAtMost(timestamp, [day |-> nowDate.day + 1, tod |-> MsPerDay - 1])
    THEN "due-soon"
    ELSE "not-due"

\* C14: getDueDateStatus gives no-due-date when the timestamp is absent, overdue iff it
\* is before now, due-today iff it is from now to the end of today (23:59:59.999),
\* due-soon iff it is after the end of today and at most the end of tomorrow, not-due
\* iff it is after the end of tomorrow; every present timestamp earlier than now is
\* overdue, and now + 24 hours is due-soon.
C14_StatusAsListed ==
    pc = "classified"
    => /\ status = ListedStatus(dueDate, now)
       /\ (dueDate # Null /\ DateBefore(dueDate, now)) => status = "overdue"
       /\ dueDate = Advance(now, MsPerDay) => status = "due-soon"

\* the same for a timestamp other than 0, the clock read once
C14_StatusOfLaterTimestamps ==
    (pc = "classified" /\ dueDate # Epoch /\ ticks = 0)
    => /\ status = ListedStatus(dueDate, now)
       /\ (dueDate # Null /\ DateBefore(dueDate, now)) => status = "overdue"
       /\ dueDate = Advance(now, MsPerDay) => status = "due-soon"

\* the timestamp 0, present and before now, classified as absent
C14_EpochIsNoDueDate ==
    pc = "classified" /\ dueDate = Epoch /\ status = "no-due-date"


-----------------------------------------------------------------------------
(* Claims about rejected tokens, under Spec                                *)

\* whether the first time pattern that matches the text yields an hour or a minute
\* out of range
HasInvalidTime(text) ==
    /\ trim(text) # ""
    /\ TimeMatch(toLowerCase(trim(text))).ok
    /\ ~ExtractTime(TimeMatch(toLowerCase(trim(text)))).valid

\* C15: a time token whose hour or minute is out of range ("25:00", "13pm", "7:75pm")
\* is treated as no match in every respect: parsedComponents.time is not set, 0.3 is
\* not added, no time is applied, and the token is not removed from the text handed to
\* the date resolvers; the parse is the parse of a text in which no time pattern matched.
C15_InvalidTimeIsNoMatch ==
    (pc = "parsed" /\ HasInvalidTime(input))
    => result = ParseTimed(input, toLowerCase(trim(input)), NoMatch, now, legacy)

\* what holds of such a token: no time component, no time weight, no time applied
C15_InvalidTimeNotApplied ==
    (pc = "parsed" /\ HasInvalidTime(input) /\ result # Null)
    => /\ result.parsedComponents.time = Undefined
       /\ result.confidence = ListedDateWeight(result.parsedComponents)
       /\ result.parsedComponents.relative # Undefined
          => result.date = ListedDate(result.parsedComponents.relative, now)

\* a date phrase followed by a rejected token, resolved as the phrase alone
C15_TokenRemoved ==
    /\ pc = "parsed"
    /\ HasInvalidTime(input)
    /\ result # Null
    /\ result.parsedComponents.relative = "tomorrow"

\* the shapes of the Month/Day Resolver that match the text with a month and a day
\* that pass the validation
ValidShapes(text, nowDate) ==
    {k \in 1..Len(monthPatterns(text)) :
        /\ monthPatterns(text)[k].match.ok
        /\ AcceptMonthDay(monthPatterns(text)[k].match, MonthAndDay(monthPatterns(text)[k]),
                          nowDate) # Unresolved}

\* the shapes that match the text with a month or a day that fails the validation
RejectedShapes(text, nowDate) ==
    {k \in 1..Len(monthPatterns(text)) :
        /\ monthPatterns(text)[k].match.ok
        /\ AcceptMonthDay(monthPatterns(text)[k].match, MonthAndDay(monthPatterns(text)[k]),
                          nowDate) = Unresolved}

\* a text the Month/Day Resolver is tried on, with a rejected shape before a valid one
HasLaterValidShape(text, nowDate) ==
    /\ trim(text) # ""
    /\ RelativeResolver(TimeStripped(text), nowDate).date = NoDate
    /\ WeekdayResolver(TimeStripped(text), nowDate).date = NoDate
    /\ \E k \in RejectedShapes(TimeStripped(text), nowDate) :
          \E later \in ValidShapes(TimeStripped(text), nowDate) : k < later

\* C16: in the Month/Day Resolver, when a shape matches but its month or day fails the
\* validation, processing continues with the next shape, so that a later shape that
\* matches with valid values still resolves the date ("jan 45 12/25" resolves by its
\* numeric shape).
C16_LaterShapeResolves ==
    (pc = "parsed" /\ HasLaterValidShape(input, now))
    => /\ result # Null
       /\ result.parsedComponents.date # Undefined
       /\ \E later \in ValidShapes(TimeStripped(input), now) :
             result.parsedComponents.date = monthPatterns(TimeStripped(input))[later].match.text

\* a text whose month-name shape is rejected and whose numeric shape is never tried
C16_LoopStopped ==
    /\ pc = "parsed"
    /\ input = "jan 45 12/25"
    /\ result = Null


-----------------------------------------------------------------------------
(* Claims about the dates the resolvers give, under Spec                   *)

\* the month and the day the Month/Day Resolver reads off the text
MonthDayRead(text) ==
    MonthAndDay(monthPatterns(text)[
        1 + findIndex([k \in 1..Len(monthPatterns(text)) |-> monthPatterns(text)[k].match.ok])])

\* new Date(year, month, day) for the month and the day read
DateInYear(year, md) == NewDate(year, md.month, md.day)

\* whether the month and the day read are those of now
IsTodaysMonthDay(md, nowDate) == md.month = getMonth(nowDate) /\ md.day = getDate(nowDate)

\* C17: a date resolved by the Month/Day Resolver, before a time of day is applied, is
\* at local midnight, is never strictly before now, and is in the current year unless
\* the current-year date is strictly before now, and then in the next year; today's own
\* month and day typed after midnight resolves to next year.
C17_MonthDayNeverPast ==
    (pc = "parsed" /\ result # Null /\ result.parsedComponents.date # Undefined)
    => LET md       == MonthDayRead(TimeStripped(input))
           thisYear == DateInYear(getFullYear(now), md)
           midnight == startOfDay(result.date)
       IN /\ result.parsedComponents.time = Undefined => result.date = midnight
          /\ ~DateBefore(midnight, now)
          /\ midnight = IF DateBefore(thisYear, now)
                        THEN DateInYear(getFullYear(now) + 1, md) ELSE thisYear
          /\ getFullYear(midnight)
               = IF DateBefore(thisYear, now) THEN getFullYear(now) + 1 ELSE getFullYear(now)
          /\ (IsTodaysMonthDay(md, now) /\ DateBefore(startOfDay(now), now))
             => getFullYear(midnight) = getFullYear(now) + 1

\* today's month and day typed in the afternoon, resolved to next year
C17_Witness ==
    /\ pc = "parsed"
    /\ result # Null
    /\ result.parsedComponents.date # Undefined
    /\ IsTodaysMonthDay(MonthDayRead(TimeStripped(input)), now)
    /\ DateBefore(startOfDay(now), now)
    /\ getFullYear(result.date) = getFullYear(now) + 1

\* a weekday phrase: a weekday name, or "next", spaces and a weekday name
IsBareWeekday(phrase) == phrase \in WeekdayNames
IsNextWeekday(phrase) ==
    /\ startsWith(phrase, "next ")
    /\ trim(Slice(phrase, 5, Len(phrase))) \in WeekdayNames

\* the named weekday, Monday = 1 .. Sunday = 7
NamedWeekday(phrase) ==
    CHOOSE k \in 1..Len(weekdays) :
        weekdays[k] = IF IsBareWeekday(phrase) THEN phrase
                      ELSE trim(Slice(phrase, 5, Len(phrase)))

\* target - today, plus 7 with "next" or when not positive
ListedDelta(phrase, nowDate) ==
    LET delta == NamedWeekday(phrase) - (IF getDay(nowDate) = 0 THEN 7 ELSE getDay(nowDate))
    IN IF IsNextWeekday(phrase) \/ delta <= 0 THEN delta + 7 ELSE delta

\* C18: for every current weekday and every weekday name the Weekday Resolver returns
\* now + delta days, delta = target - today (Monday = 1 .. Sunday = 7) plus 7 if "next"
\* was present or delta <= 0: the date falls on the named weekday, a bare weekday is
\* 1..7 days ahead, a "next" weekday 1..13 days ahead and never earlier than the bare
\* form, and the weight is 0.85 with "next", 0.8 without.
C18_WeekdayAhead ==
    (/\ pc = "parsed"
     /\ IsBareWeekday(TimeStripped(input)) \/ IsNextWeekday(TimeStripped(input)))
    => /\ result # Null
       /\ result.parsedComponents.weekday = TimeStripped(input)
       /\ result.date.day = now.day + ListedDelta(TimeStripped(input), now)
       /\ result.parsedComponents.time = Undefined => result.date.tod = now.tod
       /\ getDay(result.date) = NamedWeekday(TimeStripped(input)) % 7
       /\ IsBareWeekday(TimeStripped(input))
          => /\ result.date.day - now.day \in 1..7
             /\ result.confidence
                  = MathMin(8000 + (IF result.parsedComponents.time # Undefined
                                    THEN 3000 ELSE 0), 10000)
       /\ IsNextWeekday(TimeStripped(input))
          => /\ result.date.day - now.day \in 1..13
             /\ result.date.day - now.day
                  >= ListedDelta(trim(Slice(TimeStripped(input), 5,
                                            Len(TimeStripped(input)))), now)
             /\ result.confidence
                  = MathMin(8500 + (IF result.parsedComponents.time # Undefined
                                    THEN 3000 ELSE 0), 10000)

\* today's own weekday typed bare: a week ahead, not today
C18_Witness ==
    /\ pc = "parsed"
    /\ IsBareWeekday(input)
    /\ NamedWeekday(input) % 7 = getDay(now)
    /\ result # Null
    /\ result.date.day = now.day + 7


-----------------------------------------------------------------------------
(* Claims about the time of day, under Spec                                *)

\* hour, minute and marker as written in a time token: digits, ":MM" or nothing,
\* spaces, then "am", "pm" or nothing
WrittenHour(token) == parseInt(Slice(token, 1, DigitRun(token, 1)))
WrittenMinute(token) ==
    IF CharAt(token, DigitRun(token, 1) + 1) = ":"
    THEN parseInt(Slice(token, DigitRun(token, 1) + 2, DigitRun(token, 1) + 3))
    ELSE 0
WrittenMarker(token) ==
    IF Slice(token, Len(token) - 1, Len(token)) \in {"am", "pm"}
    THEN Slice(token, Len(token) - 1, Len(token))
    ELSE "none"

\* the written hour in 24-hour form: 12pm is 12, 12am is 0, other pm hours + 12
ListedHour(token) ==
    CASE WrittenMarker(token) = "pm" /\ WrittenHour(token) = 12 -> 12
      [] WrittenMarker(token) = "pm" /\ WrittenHour(token) # 12 -> WrittenHour(token) + 12
      [] WrittenMarker(token) = "am" /\ WrittenHour(token) = 12 -> 0
      [] OTHER -> WrittenHour(token)

\* the match of the first time pattern family, in the order of the families, that
\* matches somewhere in the text
FirstFamilyToken(text) ==
    timePatterns(text)[
        1 + findIndex([k \in 1..Len(timePatterns(text)) |-> timePatterns(text)[k].ok])].text

\* C19: whenever a returned parse has parsedComponents.time set, the hour and the minute
\* of its date are those of the extracted time in 24-hour form (12pm -> 12, 12am -> 0,
\* other pm hours + 12, am and marker-less hours unchanged), 0 <= hour <= 23 and
\* 0 <= minute <= 59, whatever the date resolver produced; the token is the match of
\* the first time pattern family that matches.
C19_TimeOverwritesDate ==
    (pc = "parsed" /\ result # Null /\ result.parsedComponents.time # Undefined)
    => /\ result.parsedComponents.time = FirstFamilyToken(toLowerCase(trim(input)))
       /\ ListedHour(result.parsedComponents.time) \in 0..23
       /\ WrittenMinute(result.parsedComponents.time) \in 0..59
       /\ isValid(result.date)
       /\ getHours(result.date) = ListedHour(result.parsedComponents.time)
       /\ getMinutes(result.date) = WrittenMinute(result.parsedComponents.time)

\* the same for the parses whose date is a valid Date
C19_TimeOverwritesValidDate ==
    (/\ pc = "parsed" /\ result # Null /\ result.parsedComponents.time # Undefined
     /\ isValid(result.date))
    => /\ result.parsedComponents.time = FirstFamilyToken(toLowerCase(trim(input)))
       /\ ListedHour(result.parsedComponents.time) \in 0..23
       /\ WrittenMinute(result.parsedComponents.time) \in 0..59
       /\ getHours(result.date) = ListedHour(result.parsedComponents.time)
       /\ getMinutes(result.date) = WrittenMinute(result.parsedComponents.time)

\* a time set on a date that is no date
C19_TimeOnInvalidDate ==
    /\ pc = "parsed"
    /\ result # Null
    /\ result.parsedComponents.time = "2pm"
    /\ ~isValid(result.date)


-----------------------------------------------------------------------------
(* Claims about the widget, under SpecWidget                               *)

\* C20: whenever pressing Enter commits a date from currentParseResult (no suggestions
\* shown), that parse result is the parse of the text the input holds at that moment
\* (the text parses, to the date that is committed); the value committed by selecting a suggestion is never replaced by the parse of a
\* text typed before.
C20_EnterCommitsCurrentText ==
    [][KeyEnterCommits
       => /\ parseSmartDateString(inputValue, now, legacy) # Null
          /\ parseSmartDateString(inputValue, now, legacy).date = currentParseResult.date]_vars

\* the state before such a commit: a suggestion was selected, the input shows its date,
\* and Enter would commit the parse of the text typed before
C20_StaleParse ==
    /\ pc = "selected"
    /\ ~showSuggestions
    /\ currentParseResult # Null
    /\ currentParseResult.confidence >= 5000
    /\ valueProp # Null
    /\ currentParseResult.date # valueProp

\* C21: in every reachable state of the widget selectedSuggestionIndex is -1 or an index
\* of the current suggestions list (0 <= index < suggestions.length), so that Enter and
\* Tab never read a suggestion the list does not hold
C21_IndexInRange ==
    \/ selectedSuggestionIndex = -1
    \/ /\ 0 <= selectedSuggestionIndex
       /\ selectedSuggestionIndex < Len(suggestions)

\* C21, the part Enter and Tab depend on: with the list shown and an entry highlighted,
\* suggestions[selectedSuggestionIndex] exists
C21_HighlightedEntryExists ==
    (showSuggestions /\ selectedSuggestionIndex >= 0)
        => selectedSuggestionIndex < Len(suggestions)

\* the state handleFocus leaves behind: the input has the focus, a shorter list is shown
\* and the index still points past its end
C21_IndexPastShownList ==
    /\ pc = "focused"
    /\ focused
    /\ showSuggestions
    /\ Len(suggestions) > 0
    /\ selectedSuggestionIndex >= Len(suggestions)

\* C22: the delayed hide scheduled by a blur takes effect only while the input is still
\* unfocused: when the callback of a blur's timer runs after the input regained the focus
\* (or the user typed), the list that focus or typing showed stays visible and the
\* highlighted index is not reset
C22_StaleTimerHidesNothing ==
    [][(BlurTimeout /\ focused)
       => /\ showSuggestions' = showSuggestions
          /\ selectedSuggestionIndex' = selectedSuggestionIndex]_vars

\* the state before such a callback: the input has the focus again, its list is shown,
\* and a timer of an earlier blur is still pending
C22_StaleTimerPending ==
    /\ focused
    /\ showSuggestions
    /\ Len(suggestions) > 0
    /\ blurTimers > 0

====
